---- MODULE Spec2Model ----
(***************************************************************************)
(* Opti-shift: monthly clinic / night-duty planning.                       *)
(*                                                                         *)
(* The model follows src/src/solver_prototype.py (SchedulingPrototype,     *)
(* people_from_records, slots_from_records, solve_schedule) and the        *)
(* orchestration of src/app.py (compute_plan, build_cap_plan,              *)
(* build_night_plan).                                                      *)
(*                                                                         *)
(* Time is counted in whole hours from 00:00 of the first day of the       *)
(* planned month; a date is a day index (0 = first day of the month).      *)
(* An optional value (Python None / a value) is the empty set / a          *)
(* singleton set.                                                          *)
(***************************************************************************)
EXTENDS Integers, Sequences, FiniteSets, TLC

\* ------------------------------------------------------------------ bounds
\* Number of days of the planned month that the model unfolds.
NumDays == 4

\* Number of approval requests in one behaviour.
MaxApprovals == 3

\* ------------------------------------------------------- program constants
RestBufferHours == 48
ExtendedRestHours == 16
ClinicSlotHours == 8
HoursPerDay == 24
DayStartHour == 8
FirstWeekendWeekday == 5
CapWeekdayHours == 16
CapWeekendHours == 24
StatusBadRequest == 400
StatusServerError == 500
WeekendPenaltyWeight == 3
RepeatPenaltyWeight == 5
MinFallbackPenaltyWeight == 10

SENIORITY_LEVELS == {"kidemli", "ara", "comez", "uzman"}

SENIORITY_WEIGHTS == [kidemli |-> 1, ara |-> 2, comez |-> 3, uzman |-> 0]
SENIORITY_TARGETS == [kidemli |-> 2, ara |-> 1, comez |-> 1, uzman |-> 0]

ROTATION_PERIOD_TO_DAYS ==
    [daily |-> 1, weekly |-> 7, biweekly |-> 14, monthly |-> 0]

DEFAULT_ROTATION_PERIOD == "daily"

\* ---------------------------------------------------------------- optionals
None == {}
Some(v) == {v}
IsNone(o) == o = {}
Val(o) == CHOOSE v \in o : TRUE

Max2(a, b) == IF a >= b THEN a ELSE b
Min2(a, b) == IF a <= b THEN a ELSE b

SeqRange(s) == {s[i] : i \in 1..Len(s)}

\* -------------------------------------------------------------------- text
\* Strings are drawn from a fixed vocabulary; str.strip() and str.lower() are
\* tabulated over it.  A string that is not listed has no surrounding blank
\* (Strip) or no upper-case letter (Lower).
Strip(text) ==
    CASE text = " Cap "      -> "Cap"
      [] text = "Mesa "      -> "Mesa"
      [] text = " Uzm. Dr. " -> "Uzm. Dr."
      [] text = "Kidemli "   -> "Kidemli"
      [] OTHER               -> text

Lower(text) ==
    CASE text \in {"Cap", "CAP"} -> "cap"
      [] text = "Mesa"           -> "mesa"
      [] text = "Kidemli"        -> "kidemli"
      [] text = "Uzm. Dr."       -> "uzm. dr."
      [] text = "Uzm."           -> "uzm."
      [] text = "Asst. Dr."      -> "asst. dr."
      [] text = "Dr."            -> "dr."
      [] OTHER                   -> text

\* (value or default): None and the empty string give the default
OrDefault(text, default) == IF text = "" THEN default ELSE text

\* (row.get("duty_category") or "nobet").strip().lower()
DutyCategory(duty) == Lower(Strip(OrDefault(duty.duty_category, "nobet")))

\* ------------------------------------------------------------------ titles
\* Titles are drawn from a fixed vocabulary; the string tests of the code
\* (strip().lower().startswith(..)) are tabulated over that vocabulary.
Titles == {"Asst. Dr.", "Uzm. Dr.", " Uzm. Dr. ", "Uzm.", "Dr.", ""}
TitleStartsWithAsst(title) == Lower(Strip(title)) \in {"asst. dr."}
TitleStartsWithUzm(title) == Lower(Strip(title)) \in {"uzm. dr.", "uzm."}

\* ---------------------------------------------------------------- calendar
\* A month is [first_weekday, days, holidays]; weekday 0 is Monday.
Days(month) == 0..(month.days - 1)
Weekday(month, day) == (month.first_weekday + day) % 7
IsWeekend(month, day) == Weekday(month, day) >= FirstWeekendWeekday
IsHoliday(month, day) == day \in month.holidays

\* ------------------------------------------------------------ Person, slot
\* Person.identifier "staff_<N>" is the pair <<"staff", N>>.
StaffIdentifier(id) == <<"staff", id>>

\* int(identifier.split("_", 1)[1]) guarded by startswith("staff_")
StaffIdOfIdentifier(identifier) ==
    IF Len(identifier) >= 2 /\ identifier[1] = "staff"
    THEN Some(identifier[2])
    ELSE None

\* people_from_records: one Person per staff row, in row order.
PersonFromRecord(row) ==
    LET title == Strip(row.title)
        raw_seniority == Lower(Strip(row.seniority))
        seniority_key ==
            IF title = "Uzm. Dr." THEN "uzman"
            ELSE IF raw_seniority \in SENIORITY_LEVELS THEN raw_seniority
            ELSE "ara"
        min0 == IF ~IsNone(row.min_night) /\ Val(row.min_night) < 0
                THEN None ELSE row.min_night
        max0 == IF ~IsNone(row.max_night) /\ Val(row.max_night) < 0
                THEN None ELSE row.max_night
        inverted == ~IsNone(min0) /\ ~IsNone(max0) /\ Val(min0) > Val(max0)
    IN  [identifier       |-> StaffIdentifier(row.id),
         display_name     |-> row.name,
         seniority        |-> seniority_key,
         title            |-> title,
         min_night_duties |-> IF inverted THEN None ELSE min0,
         max_night_duties |-> IF inverted THEN None ELSE max0,
         education_year   |-> row.education_year]

people_from_records(records) ==
    [i \in 1..Len(records) |-> PersonFromRecord(records[i])]

\* DutySlot.end
SlotEnd(slot) == slot.start + slot.duration_hours

\* DutySlot.requires_extended_rest
requires_extended_rest(slot) == slot.duration_hours >= ExtendedRestHours

SlotDate(slot) == slot.start \div HoursPerDay

\* The identifier "clinic_<id>_<date>[_<pos>]" / "duty_<id>_<date>[_<pos>]"
\* is the sequence of its "_"-separated parts.
SlotIdentifier_AlwaysSuffix(prefix, id, day, idx, required) ==
    <<prefix, id, day, idx>>

SlotIdentifier(prefix, id, day, idx, required) ==
    IF required > 1 THEN <<prefix, id, day, idx>> ELSE <<prefix, id, day>>

_parse_clinic_slot_identifier_NoDefault(identifier) ==
    IF identifier[1] # "clinic" \/ Len(identifier) < 3 THEN <<None, None>>
    ELSE IF Len(identifier) >= 4 THEN <<Some(identifier[2]), Some(identifier[4])>>
    ELSE <<Some(identifier[2]), None>>

\* _parse_clinic_slot_identifier: <<clinic id, position index>>, both optional.
\* identifier[1] is the prefix, so parts[1] of the code is identifier[2].
_parse_clinic_slot_identifier(identifier) ==
    IF identifier[1] # "clinic" THEN <<None, None>>
    ELSE IF Len(identifier) < 3 THEN <<None, None>>
    ELSE IF Len(identifier) >= 4 THEN <<Some(identifier[2]), Some(identifier[4])>>
    ELSE <<Some(identifier[2]), Some(1)>>

\* _parse_duty_slot_identifier
_parse_duty_slot_identifier(identifier) ==
    IF identifier[1] # "duty" THEN None
    ELSE IF Len(identifier) < 2 THEN None
    ELSE Some(identifier[2])

\* ------------------------------------------------------ slots_from_records
RECURSIVE ConcatAll(_)
ConcatAll(seqs) ==
    IF seqs = <<>> THEN <<>> ELSE Head(seqs) \o ConcatAll(Tail(seqs))

\* The k position slots of one clinic/duty on one day.
\* start_weekday is start.weekday() of the slot's datetime.
DaySlots(prefix, duty_type, id, month, day, start_hour, duration, required) ==
    [idx \in 1..required |->
        [identifier     |-> SlotIdentifier(prefix, id, day, idx, required),
         duty_type      |-> duty_type,
         start          |-> day * HoursPerDay + start_hour,
         start_weekday  |-> Weekday(month, day),
         duration_hours |-> duration]]

ClinicSlots(clinic, month) ==
    LET required == Max2(clinic.required_assistants, 1)
    IN  ConcatAll([d \in 1..month.days |->
            IF IsWeekend(month, d - 1) \/ IsHoliday(month, d - 1) THEN <<>>
            ELSE DaySlots("clinic", "clinic", clinic.id, month, d - 1,
                          DayStartHour, ClinicSlotHours, required)])

\* variant: every long duty starts at 16:00
DutyStartHour_Evening(duration) ==
    IF duration >= ExtendedRestHours
    THEN HoursPerDay - DayStartHour
    ELSE DayStartHour

DutyStartHour(duration) ==
    IF duration >= ExtendedRestHours
    THEN (DayStartHour - duration) % HoursPerDay
    ELSE DayStartHour

DutySlots(duty, month, normalized_plan) ==
    LET category == DutyCategory(duty)
        duration == Max2(duty.duration_hours, 1)
        required == Max2(duty.required_staff_count, 1)
    IN  IF normalized_plan = "clinic" /\ category # "mesa" THEN <<>>
        ELSE IF normalized_plan = "nobet" /\ category # "nobet" THEN <<>>
        ELSE ConcatAll([d \in 1..month.days |->
                IF category = "mesa"
                   /\ (IsWeekend(month, d - 1) \/ IsHoliday(month, d - 1))
                THEN <<>>
                ELSE DaySlots("duty", "duty", duty.id, month, d - 1,
                              DutyStartHour(duration), duration, required)])

slots_from_records(clinic_rows, duty_rows, month, plan_type) ==
    (IF plan_type # "nobet"
     THEN ConcatAll([i \in 1..Len(clinic_rows) |-> ClinicSlots(clinic_rows[i], month)])
     ELSE <<>>)
    \o ConcatAll([i \in 1..Len(duty_rows) |-> DutySlots(duty_rows[i], month, plan_type)])

\* ------------------------------------------------------ maps (Python dicts)
EmptyMap == <<>>
Get(map, key, default) == IF key \in DOMAIN map THEN map[key] ELSE default
Restrict(map, keys) == [k \in (DOMAIN map) \cap keys |-> map[k]]

\* -------------------------------------------------- leave window handling
\* start <= end canonical form of a (start_date, end_date) pair
CanonicalWindow(window) ==
    IF window[2] < window[1] THEN <<window[2], window[1]>> ELSE window

\* solve_schedule: leave_calendar, keyed by person identifier, every window kept
LeaveCalendar(people, staff_leave_requests) ==
    LET has_leave(i) ==
            LET sid == StaffIdOfIdentifier(people[i].identifier)
            IN  /\ ~IsNone(sid)
                /\ Val(sid) \in DOMAIN staff_leave_requests
                /\ staff_leave_requests[Val(sid)] # <<>>
        keys == {people[i].identifier : i \in {j \in 1..Len(people) : has_leave(j)}}
    IN  [identifier \in keys |->
            LET windows == staff_leave_requests[Val(StaffIdOfIdentifier(identifier))]
            IN  [w \in 1..Len(windows) |-> CanonicalWindow(windows[w])]]

\* SchedulingPrototype.__init__: person_leave_windows.  The append of the
\* canonical window sits after the loop over the windows, so one window, the
\* last one of the loop, is stored per person.
NormalizedWindows(windows) ==
    IF windows = <<>> THEN <<>>
    ELSE <<CanonicalWindow(windows[Len(windows)])>>

PersonLeaveWindows(leave_calendar) ==
    LET keys == {k \in DOMAIN leave_calendar : NormalizedWindows(leave_calendar[k]) # <<>>}
    IN  [k \in keys |-> NormalizedWindows(leave_calendar[k])]

\* ---------------------------------------------- SchedulingPrototype.__init__
NormalizeRules(rules) ==
    Restrict(rules, {k \in DOMAIN rules : k \in SENIORITY_LEVELS /\ rules[k] >= 0})

NormalizeRuleMap(rule_map) ==
    LET keys == {c \in DOMAIN rule_map : DOMAIN NormalizeRules(rule_map[c]) # {}}
    IN  [c \in keys |-> NormalizeRules(rule_map[c])]

NormalizeForbidden(forbidden) ==
    Restrict(forbidden, {c \in DOMAIN forbidden : forbidden[c] # {}})

\* normalize_rotation_period + rotation_period_to_block_size
rotation_period_to_block_size(value) ==
    IF value \in DOMAIN ROTATION_PERIOD_TO_DAYS
    THEN ROTATION_PERIOD_TO_DAYS[value]
    ELSE ROTATION_PERIOD_TO_DAYS[DEFAULT_ROTATION_PERIOD]

\* The prototype object built by solve_schedule from its arguments.
Prototype(args) ==
    [people                  |-> args.people,
     slots                   |-> args.slots,
     rest_buffer             |-> args.rest_buffer_hours,
     enforce_person_limits   |-> args.enforce_person_limits,
     clinic_rotation_days    |->
        [c \in DOMAIN args.clinic_rotation_periods |->
            Max2(0, rotation_period_to_block_size(args.clinic_rotation_periods[c]))],
     clinic_seniority_rules  |-> NormalizeRuleMap(args.clinic_seniority_rules),
     clinic_forbidden_people |-> NormalizeForbidden(args.clinic_forbidden_people),
     clinic_repeat_history   |-> args.clinic_repeat_history,
     weekend_history_counts  |-> args.weekend_history_counts,
     objective_mode          |-> IF args.objective_mode \in {"seniority", "balanced"}
                                 THEN args.objective_mode ELSE "seniority",
     person_leave_windows    |->
        PersonLeaveWindows(LeaveCalendar(args.people, args.staff_leave_requests))]

PIdx(self) == 1..Len(self.people)
SIdx(self) == 1..Len(self.slots)

\* _is_assistant
_is_assistant(person) ==
    TitleStartsWithAsst(person.title) \/ ~IsNone(person.education_year)

\* leave_start = 00:00 of start_date; leave_end = 23:59:59.999999 of end_date.
\* Slots start and end on whole hours, so "<= leave_end" is "<= 23:00".
LeaveStart(start_date) == start_date * HoursPerDay
LeaveEnd(end_date) == end_date * HoursPerDay + (HoursPerDay - 1)

WindowOverlapsSlot(window, slot) ==
    slot.start <= LeaveEnd(window[2]) /\ SlotEnd(slot) >= LeaveStart(window[1])

\* _person_on_leave_during_slot
_person_on_leave_during_slot(self, person_identifier, slot) ==
    LET windows == Get(self.person_leave_windows, person_identifier, <<>>)
    IN  \E w \in 1..Len(windows) : WindowOverlapsSlot(windows[w], slot)

\* variant: specialists allowed in every clinic
SpecialistAllowed_Always(self, clinic_id) == ~IsNone(clinic_id)

\* _build_assignment_variables: does the pair (person, slot) get a variable.
\* people_from_records leaves allowed_duty_types at ("*",), so the test on
\* the allowed duty types never skips a pair.
SpecialistAllowed(self, clinic_id) ==
    /\ ~IsNone(clinic_id)
    /\ LET rules == Get(self.clinic_seniority_rules, Val(clinic_id), EmptyMap)
       IN  Get(rules, "uzman", 0) # 0

ForbiddenFor(self, clinic_id, person) ==
    /\ ~IsNone(clinic_id)
    /\ person.identifier \in Get(self.clinic_forbidden_people, Val(clinic_id), {})

HasVariable(self, p, s) ==
    LET person == self.people[p]
        slot == self.slots[s]
        clinic_id == _parse_clinic_slot_identifier(slot.identifier)[1]
    IN  /\ slot.duty_type = "clinic" =>
              /\ ~ForbiddenFor(self, clinic_id, person)
              /\ SpecialistAllowed(self, clinic_id) \/ _is_assistant(person)
        /\ ~_person_on_leave_during_slot(self, person.identifier, slot)

\* _clinic_assignment_repeat: the variables that carry the repeat penalty
_clinic_assignment_repeat(self, p, s) ==
    LET slot == self.slots[s]
        clinic_id == _parse_clinic_slot_identifier(slot.identifier)[1]
    IN  /\ slot.duty_type = "clinic"
        /\ ~IsNone(clinic_id)
        /\ self.people[p].identifier \in Get(self.clinic_repeat_history, Val(clinic_id), {})

\* variant: no variable for a repeated clinic assignment
_build_assignment_variables_SkipRepeats(self) ==
    {ps \in PIdx(self) \X SIdx(self) :
        HasVariable(self, ps[1], ps[2]) /\ ~_clinic_assignment_repeat(self, ps[1], ps[2])}

_build_assignment_variables(self) ==
    {ps \in PIdx(self) \X SIdx(self) : HasVariable(self, ps[1], ps[2])}

\* ------------------------------------------------------------- constraints
\* A valuation x of the boolean assignment variables is a sequence giving,
\* per slot index, the set of people whose variable for that slot is true.
\* The constraint model (cp_model.CpModel) is the record of the constraints
\* that the _enforce_* methods add; each is stated over existing variables.
Holds(x, p, s) == p \in x[s]
TrueCount(x, var_set) == Cardinality({ps \in var_set : Holds(x, ps[1], ps[2])})

CandidatePeople(self, vars, s) == {p \in PIdx(self) : <<p, s>> \in vars}

\* variant: at most one person per slot
SlotCoverage_AtMostOne(true_people) == Cardinality(true_people) <= 1

\* _enforce_slot_coverage: model.Add(sum(candidate_vars) == 1)
SlotCoverage(true_people) == Cardinality(true_people) = 1

\* _enforce_slot_coverage raises ValueError for a slot without candidates
UncoveredSlots(self, vars) == {s \in SIdx(self) : CandidatePeople(self, vars, s) = {}}

\* _collect_clinic_slot_groups: slot index -> <<clinic id, position>> for the
\* clinic slots whose identifier parses
ClinicSlotGroups(self) ==
    LET parsed == [s \in SIdx(self) |-> _parse_clinic_slot_identifier(self.slots[s].identifier)]
        grouped == {s \in SIdx(self) : /\ self.slots[s].duty_type = "clinic"
                                       /\ ~IsNone(parsed[s][1])
                                       /\ ~IsNone(parsed[s][2])}
    IN  [s \in grouped |-> <<Val(parsed[s][1]), Val(parsed[s][2])>>]

\* earliest slot date of the clinic anchors its rotation windows
BaseDate(self, groups, clinic_id) ==
    LET dates == {SlotDate(self.slots[s]) : s \in {t \in DOMAIN groups : groups[t][1] = clinic_id}}
    IN  CHOOSE d \in dates : \A e \in dates : d <= e

RotationDays(self, clinic_id) == Get(self.clinic_rotation_days, clinic_id, 1)

BlockKey(rotation_days, base_date, slot) ==
    IF rotation_days <= 0 THEN 0
    ELSE (SlotDate(slot) - base_date) \div rotation_days

\* grouped.sort(key=start); grouped[0]: earliest start, list order on a tie
Representative(self, members) ==
    CHOOSE r \in members :
        \A t \in members :
            \/ self.slots[r].start < self.slots[t].start
            \/ self.slots[r].start = self.slots[t].start /\ r <= t

\* The rotation blocks: one record per (clinic, position, block key) with its
\* member slots and its representative.
RotationBlocks(self) ==
    LET groups == ClinicSlotGroups(self)
        clinic_ids == {groups[s][1] : s \in DOMAIN groups}
        base == [c \in clinic_ids |-> BaseDate(self, groups, c)]
        key == [s \in DOMAIN groups |->
                    BlockKey(RotationDays(self, groups[s][1]), base[groups[s][1]],
                             self.slots[s])]
        members(s) == {t \in DOMAIN groups : groups[t] = groups[s] /\ key[t] = key[s]}
    IN  {[clinic_id |-> groups[s][1], position |-> groups[s][2], block_key |-> key[s],
          members |-> members(s), representative |-> Representative(self, members(s))] :
            s \in DOMAIN groups}

\* the guard at the top of _enforce_clinic_rotation_and_seniority
RotationActive(self) ==
    DOMAIN self.clinic_rotation_days # {} \/ DOMAIN self.clinic_seniority_rules # {}

\* model.Add(var_other == var_ref): <<person, representative, other slot>>,
\* added for the people who have both variables
LinkExists(vars, p, rep, s) == <<p, rep>> \in vars /\ <<p, s>> \in vars

RotationLinks(self, vars, blocks) ==
    UNION {{<<p, b.representative, s>> :
                p \in {q \in PIdx(self) : LinkExists(vars, q, b.representative, s)}} :
            <<b, s>> \in {bs \in blocks \X SIdx(self) :
                            bs[2] \in bs[1].members \ {bs[1].representative}}}

LinkHolds(x, link) == Holds(x, link[1], link[3]) <=> Holds(x, link[1], link[2])

\* exact_vars / fallback_vars of one (block, seniority key)
ExactVars(self, vars, reps, seniority_key) ==
    {ps \in vars : ps[2] \in reps /\ self.people[ps[1]].seniority = seniority_key}

FallbackVars(self, vars, reps, seniority_key) ==
    {ps \in vars : /\ ps[2] \in reps
                   /\ self.people[ps[1]].seniority # seniority_key
                   /\ _is_assistant(self.people[ps[1]])}

\* The seniority constraints: one record per (clinic, block key, seniority
\* key with required_count > 0) over the block's representatives.
SeniorityGroups(self, vars, blocks) ==
    LET ruled == {b \in blocks : b.clinic_id \in DOMAIN self.clinic_seniority_rules}
        reps(c, k) == {b.representative : b \in {d \in ruled : d.clinic_id = c /\ d.block_key = k}}
    IN  UNION {{[clinic_id      |-> b.clinic_id,
                 block_key      |-> b.block_key,
                 seniority_key  |-> sk,
                 required_count |-> self.clinic_seniority_rules[b.clinic_id][sk],
                 representatives |-> reps(b.clinic_id, b.block_key),
                 exact_vars     |-> ExactVars(self, vars, reps(b.clinic_id, b.block_key), sk),
                 fallback_vars  |-> FallbackVars(self, vars, reps(b.clinic_id, b.block_key), sk)] :
                    sk \in {k \in DOMAIN self.clinic_seniority_rules[b.clinic_id] :
                                self.clinic_seniority_rules[b.clinic_id][k] > 0}} :
                b \in ruled}

\* fallback_usage == required_count - Sum(exact_vars)
FallbackUsage(x, group) == group.required_count - TrueCount(x, group.exact_vars)

\* variant: the fallback range without the equality on the total
SeniorityRuleHolds_RangeOnly(x, group) ==
    FallbackUsage(x, group) \in 0..group.required_count

SeniorityRuleHolds(x, group) ==
    IF group.exact_vars = {} /\ group.fallback_vars = {}
    THEN 0 = group.required_count
    ELSE /\ TrueCount(x, group.exact_vars \cup group.fallback_vars) = group.required_count
         /\ FallbackUsage(x, group) \in 0..group.required_count

\* _slots_overlap
_slots_overlap(slot_a, slot_b) ==
    Max2(slot_a.start, slot_b.start) < Min2(SlotEnd(slot_a), SlotEnd(slot_b))

\* variant: the rest buffer is left out
_violates_rest_NoBuffer(rest_buffer, slot_a, slot_b) ==
    /\ requires_extended_rest(slot_a) /\ requires_extended_rest(slot_b)
    /\ LET earlier == IF slot_b.start < slot_a.start THEN slot_b ELSE slot_a
           later == IF slot_b.start < slot_a.start THEN slot_a ELSE slot_b
       IN  later.start < SlotEnd(earlier)

\* _violates_rest: sorted() is stable, slot_a comes first on equal starts
_violates_rest(rest_buffer, slot_a, slot_b) ==
    /\ requires_extended_rest(slot_a) /\ requires_extended_rest(slot_b)
    /\ LET earlier == IF slot_b.start < slot_a.start THEN slot_b ELSE slot_a
           later == IF slot_b.start < slot_a.start THEN slot_a ELSE slot_b
       IN  later.start < SlotEnd(earlier) + rest_buffer

\* _compute_conflicting_slot_pairs
_compute_conflicting_slot_pairs(self) ==
    {ij \in SIdx(self) \X SIdx(self) :
        /\ ij[1] < ij[2]
        /\ \/ _slots_overlap(self.slots[ij[1]], self.slots[ij[2]])
           \/ _violates_rest(self.rest_buffer, self.slots[ij[1]], self.slots[ij[2]])}

\* _enforce_non_overlap_and_rest: var_a + var_b <= 1 as <<person, slot, slot>>,
\* added for the people who have both variables
ConflictConstraints(self, vars) ==
    LET conflicting_pairs == _compute_conflicting_slot_pairs(self)
    IN  UNION {{<<p, ij[1], ij[2]>> :
                    p \in {q \in PIdx(self) : <<q, ij[1]>> \in vars /\ <<q, ij[2]>> \in vars}} :
                ij \in conflicting_pairs}

ConflictHolds(x, c) == ~(Holds(x, c[1], c[2]) /\ Holds(x, c[1], c[3]))

\* _enforce_person_limits: the people it bounds; people without any
\* variable are skipped
LimitedPeople(self, vars) ==
    IF self.enforce_person_limits
    THEN {p \in PIdx(self) : \E s \in SIdx(self) : <<p, s>> \in vars}
    ELSE {}

PersonLimitHolds(self, vars, x, p) ==
    LET person == self.people[p]
        total == TrueCount(x, {ps \in vars : ps[1] = p})
    IN  /\ ~IsNone(person.min_night_duties)
            => total >= Max2(Val(person.min_night_duties), 0)
        /\ ~IsNone(person.max_night_duties)
            => total <= Max2(Val(person.max_night_duties), 0)

\* ----------------------------------------------------------- the objective
Abs(n) == IF n < 0 THEN -n ELSE n

\* sum of f[e] over the elements e of the set S
RECURSIVE SumSet(_, _)
SumSet(S, f) ==
    IF S = {} THEN 0
    ELSE LET e == CHOOSE e \in S : TRUE
         IN  f[e] + SumSet(S \ {e}, f)

\* _build_person_totals: load_var of person p
Load(model, x, p) == TrueCount(x, {ps \in model.vars : ps[1] = p})

\* __init__: weekend_slot_indices, the duty slots that start on a weekend
weekend_slot_indices(self) ==
    {s \in SIdx(self) : /\ self.slots[s].duty_type = "duty"
                        /\ self.slots[s].start_weekday >= FirstWeekendWeekday}

\* _build_weekend_fairness_terms: per person the variable diff,
\* (history_count + weekend_var) * num_people - total_final, and the bound
\* of its domain; no term without weekend slots or with total_final = 0
WeekendDiffs(self, model, x) ==
    LET weekend_slots == weekend_slot_indices(self)
        num_people == Len(self.people)
        history == [p \in PIdx(self) |->
                        Get(self.weekend_history_counts, self.people[p].identifier, 0)]
        weekend == [p \in PIdx(self) |->
                        TrueCount(x, {ps \in model.vars : ps[1] = p /\ ps[2] \in weekend_slots})]
        total_final == SumSet(PIdx(self), history) + Cardinality(weekend_slots)
    IN  [terms        |-> IF weekend_slots = {} \/ total_final = 0 THEN {} ELSE PIdx(self),
         diff         |-> [p \in PIdx(self) |->
                              (history[p] + weekend[p]) * num_people - total_final],
         scaled_bound |-> total_final * Max2(1, num_people)]

_build_weekend_fairness_terms(self, model, x) ==
    LET weekend == WeekendDiffs(self, model, x)
    IN  SumSet(weekend.terms, [p \in weekend.terms |-> Abs(weekend.diff[p])])

\* _add_seniority_objective: the value that model.Minimize is given
_add_seniority_objective(self, model, x) ==
    LET deviation == [p \in PIdx(self) |->
                        SENIORITY_WEIGHTS[self.people[p].seniority]
                        * Abs(Load(model, x, p) - SENIORITY_TARGETS[self.people[p].seniority])]
        penalised == {g \in model.seniority : g.exact_vars \cup g.fallback_vars # {}}
        repeats == {ps \in model.vars : _clinic_assignment_repeat(self, ps[1], ps[2])}
    IN  SumSet(PIdx(self), deviation)
        + WeekendPenaltyWeight * _build_weekend_fairness_terms(self, model, x)
        + Max2(MinFallbackPenaltyWeight, Len(self.slots))
            * SumSet(penalised, [g \in penalised |-> FallbackUsage(x, g)])
        + RepeatPenaltyWeight * TrueCount(x, repeats)

\* The helper variables of the objective are integer variables with a
\* domain, tied to the assignment variables by equalities: a valuation whose
\* helper value falls outside the domain is no solution.
\*   seniority: diff = load - preferred in -total_slots..total_slots
\*   balanced:  slot_diff = load * num_people - total_slots in
\*              -slot_bound..slot_bound, slot_bound = total_slots * num_people
\*   both:      the weekend diff in -scaled_bound..scaled_bound
ObjectiveVariablesInDomain(self, model, x) ==
    LET total_slots == Len(self.slots)
        num_people == Len(self.people)
        weekend == WeekendDiffs(self, model, x)
    IN  /\ \A p \in PIdx(self) :
              IF self.objective_mode = "balanced"
              THEN Abs(Load(model, x, p) * num_people - total_slots)
                      <= total_slots * num_people
              ELSE Abs(Load(model, x, p) - SENIORITY_TARGETS[self.people[p].seniority])
                      <= total_slots
        /\ \A p \in weekend.terms : Abs(weekend.diff[p]) <= weekend.scaled_bound

\* solve(): the constraint model handed to CP-SAT
BuildModel(self) ==
    LET vars == _build_assignment_variables(self)
        blocks == IF RotationActive(self) THEN RotationBlocks(self) ELSE {}
    IN  [vars       |-> vars,
         candidates |-> [s \in SIdx(self) |-> CandidatePeople(self, vars, s)],
         links      |-> RotationLinks(self, vars, blocks),
         seniority  |-> SeniorityGroups(self, vars, blocks),
         conflicts  |-> ConflictConstraints(self, vars),
         limited    |-> LimitedPeople(self, vars)]

Satisfies(self, model, x) ==
    /\ \A link \in model.links : LinkHolds(x, link)
    /\ \A group \in model.seniority : SeniorityRuleHolds(x, group)
    /\ \A c \in model.conflicts : ConflictHolds(x, c)
    /\ \A p \in model.limited : PersonLimitHolds(self, model.vars, x, p)
    /\ ObjectiveVariablesInDomain(self, model, x)

\* Valuations that satisfy the coverage constraint of every slot; a variable
\* exists only for the candidate people of the slot.
RECURSIVE CoveredValuations(_, _)
CoveredValuations(model, n) ==
    IF n = 0 THEN {<<>>}
    ELSE {Append(x, true_people) :
            x \in CoveredValuations(model, n - 1),
            true_people \in {t \in SUBSET model.candidates[n] : SlotCoverage(t)}}

\* The solutions of the constraint model.
Solutions(self, model) ==
    {x \in CoveredValuations(model, Len(self.slots)) : Satisfies(self, model, x)}

\* the solutions for which the solver reports the status OPTIMAL
OptimalSolutions(self, model) ==
    LET solutions == Solutions(self, model)
        value == [x \in solutions |-> _add_seniority_objective(self, model, x)]
    IN  {x \in solutions : \A y \in solutions : value[x] <= value[y]}

\* get_assignments: person_id of slot s, the first person whose variable is
\* true (None when there is none)
AssignedPerson(x, s) ==
    IF x[s] = {} THEN None
    ELSE Some(CHOOSE p \in x[s] : \A q \in x[s] : p <= q)

get_assignments(self, x) ==
    [s \in SIdx(self) |->
        LET slot == self.slots[s]
            assigned == AssignedPerson(x, s)
        IN  [slot_id                |-> slot.identifier,
             duty_type              |-> slot.duty_type,
             start                  |-> slot.start,
             duration_hours         |-> slot.duration_hours,
             requires_extended_rest |-> requires_extended_rest(slot),
             person_id              |-> IF IsNone(assigned) THEN None
                                        ELSE Some(self.people[Val(assigned)].identifier),
             person_seniority       |-> IF IsNone(assigned) THEN None
                                        ELSE Some(self.people[Val(assigned)].seniority)]]

\* ---------------------------------------------------------- solve_schedule
\* Arguments of one solve_schedule call; the keyword arguments that a caller
\* leaves out (None) are empty maps.
SolveArgs(people, slots, enforce, rotation, rules, forbidden, repeat, weekend, leave, mode) ==
    [people                  |-> people,
     slots                   |-> slots,
     rest_buffer_hours       |-> RestBufferHours,
     enforce_person_limits   |-> enforce,
     clinic_rotation_periods |-> rotation,
     clinic_seniority_rules  |-> rules,
     clinic_forbidden_people |-> forbidden,
     clinic_repeat_history   |-> repeat,
     weekend_history_counts  |-> weekend,
     staff_leave_requests    |-> leave,
     objective_mode          |-> mode]

NoValuation == <<>>

\* What one call can end in.  _validate_inputs and _enforce_slot_coverage
\* raise ValueError while the model is built; solve() raises RuntimeError for
\* every solver status other than OPTIMAL/FEASIBLE: INFEASIBLE when the model
\* has no solution, UNKNOWN when the 10 s wall clock runs out first (possible
\* for any model).  On success the solver hands back a solution.
SolveOutcomes(args) ==
    LET self == Prototype(args)
        model == BuildModel(self)
        uncovered == UncoveredSlots(self, model.vars)
        solutions == Solutions(self, model)
    IN  IF \/ Len(self.people) = 0
           \/ Len(self.slots) = 0
           \/ \E p \in PIdx(self) : self.people[p].seniority \notin SENIORITY_LEVELS
        THEN {[kind |-> "ValueError", detail |-> "validate_inputs", x |-> NoValuation]}
        ELSE IF uncovered # {}
        THEN {[kind |-> "ValueError", detail |-> "no_eligible_personnel", x |-> NoValuation]}
        ELSE {[kind |-> "RuntimeError", detail |-> "UNKNOWN", x |-> NoValuation]}
             \cup (IF solutions = {}
                   THEN {[kind |-> "RuntimeError", detail |-> "INFEASIBLE", x |-> NoValuation]}
                   ELSE {[kind |-> "ok", detail |-> "FEASIBLE", x |-> x] : x \in solutions})

\* ----------------------------------------------------------- build_cap_plan
\* Display names in case-insensitive alphabetical order; the sort key
\* (display_name or "").lower() of a name is its position here.
NameOrder == <<"ada", "Baran", "cem", "Deniz", "emre", "Filiz">>
NameKey(name) == CHOOSE i \in 1..Len(NameOrder) : NameOrder[i] = name

\* list.sort(key=..) / sorted(..): stable sort of seq by the integer keys
SortRank(keys, i) ==
    1 + Cardinality({j \in 1..Len(keys) :
                        keys[j] < keys[i] \/ (keys[j] = keys[i] /\ j < i)})

StableSort(seq, keys) ==
    [r \in 1..Len(seq) |-> seq[CHOOSE i \in 1..Len(seq) : SortRank(keys, i) = r]]

\* specialists, sorted by lower-cased display name
CapSpecialists(people) ==
    LET chosen == SelectSeq(people, LAMBDA person : TitleStartsWithUzm(person.title))
    IN  StableSort(chosen, [i \in 1..Len(chosen) |-> NameKey(chosen[i].display_name)])

\* build_cap_plan.is_on_leave
is_on_leave_FirstDayOnly(leave_requests, person, day) ==
    LET sid == StaffIdOfIdentifier(person.identifier)
        windows == IF IsNone(sid) THEN <<>> ELSE Get(leave_requests, Val(sid), <<>>)
    IN  \E w \in 1..Len(windows) : windows[w][1] = day

is_on_leave(leave_requests, person, day) ==
    LET sid == StaffIdOfIdentifier(person.identifier)
        windows == IF IsNone(sid) THEN <<>> ELSE Get(leave_requests, Val(sid), <<>>)
    IN  \E w \in 1..Len(windows) : windows[w][1] <= day /\ day <= windows[w][2]

\* offsets 0..n-1 from the pointer whose specialist is free that day
FreeOffsets_SkipPointer(specialists, leave_requests, pointer, day) ==
    {offset \in 1..(Len(specialists) - 1) :
        ~is_on_leave(leave_requests,
                     specialists[((pointer + offset) % Len(specialists)) + 1], day)}

FreeOffsets(specialists, leave_requests, pointer, day) ==
    {offset \in 0..(Len(specialists) - 1) :
        ~is_on_leave(leave_requests,
                     specialists[((pointer + offset) % Len(specialists)) + 1], day)}

CapAssignment(cap_duty, month, day, person) ==
    [slot_id                |-> <<"duty", cap_duty.id, day>>,
     duty_type              |-> "cap",
     start                  |-> day * HoursPerDay,
     duration_hours         |-> IF IsWeekend(month, day)
                                THEN CapWeekendHours ELSE CapWeekdayHours,
     requires_extended_rest |-> FALSE,
     person_id              |-> Some(person.identifier),
     person_seniority       |-> Some(person.seniority)]

\* pointer = (pointer + offset + 1) % num_specialists
NextPointer_Stay(pointer, offset, num_specialists) ==
    (pointer + offset) % num_specialists

NextPointer_StepOne(pointer, offset, num_specialists) ==
    (pointer + 1) % num_specialists

NextPointer(pointer, offset, num_specialists) ==
    (pointer + offset + 1) % num_specialists

\* The loop over the days.  state is the loop's state before the day:
\* the assignments made and, in pointers, the value of the pointer before
\* day 0 and after each day handled so far (the last one is the pointer).
CapResult(ok, failed_day, assignments, pointers) ==
    [ok |-> ok, failed_day |-> failed_day, assignments |-> assignments,
     pointers |-> pointers]

RECURSIVE CapLoop(_, _, _, _, _, _)
CapLoop(specialists, cap_duty, month, leave_requests, day, state) ==
    IF day >= month.days
    THEN state
    ELSE LET pointer == state.pointers[Len(state.pointers)]
             free == FreeOffsets(specialists, leave_requests, pointer, day)
         IN  IF free = {}
             THEN CapResult(FALSE, Some(day), <<>>, state.pointers)
             ELSE LET offset == CHOOSE o \in free : \A q \in free : o <= q
                      chosen == specialists[((pointer + offset) % Len(specialists)) + 1]
                  IN  CapLoop(specialists, cap_duty, month, leave_requests, day + 1,
                              CapResult(TRUE, None,
                                        Append(state.assignments,
                                               CapAssignment(cap_duty, month, day, chosen)),
                                        Append(state.pointers,
                                               NextPointer(pointer, offset,
                                                           Len(specialists)))))

build_cap_plan(people, cap_duty, month, leave_requests) ==
    LET specialists == CapSpecialists(people)
    IN  IF specialists = <<>>
        THEN CapResult(FALSE, None, <<>>, <<0>>)
        ELSE CapLoop(specialists, cap_duty, month, leave_requests, 0,
                     CapResult(TRUE, None, <<>>, <<0>>))

\* ------------------------------------------------------------------ state
VARIABLES
    repo,            \* rows of the repository: staff, clinics, rules, duties, leave, history
    request,         \* the plan request: plan_type and month
    pc,              \* position of the request handler
    solves,          \* the solve_schedule calls made so far: arguments and outcome
    cap_result,      \* build_cap_plan's result, once computed
    fallback_notes,  \* compute_plan / build_night_plan: notes of the relaxations applied
    response,        \* what the entry point returned: (result, error, status)
    table,           \* assignment_history rows of the planned period, as connections read them
    approval,        \* planla_approve: the state of each approval request
    write_lock,      \* the connection that holds the database's write lock, if any
    snapshot,        \* what the last list_assignment_history call of another request returned
    log,             \* the approval requests that have ended: how many, and the last of each plan type
    elsewhere,       \* the committed assignment_history rows of other periods and other units
    converted        \* people_from_records / slots_from_records applied to the repository rows

plan_vars == <<repo, request, pc, solves, cap_result, fallback_notes, response>>
history_vars == <<table, approval, write_lock, snapshot, log, elsewhere>>
vars == <<plan_vars, history_vars, converted>>

\* ------------------------------------------------------- bounded inputs
StaffRow(id, name, title, seniority, education_year, min_night, max_night) ==
    [id |-> id, name |-> name, title |-> title, seniority |-> seniority,
     education_year |-> education_year, min_night |-> min_night, max_night |-> max_night]

Resident(id, name, seniority) ==
    StaffRow(id, name, "Asst. Dr.", seniority, None, None, None)
Specialist(id, name) == StaffRow(id, name, "Uzm. Dr.", "", None, None, None)
\* a resident known by the education year only
YearResident(id, name) == StaffRow(id, name, "Dr.", "ara", Some(2), None, None)
LimitedResident(id, name, limits) ==
    StaffRow(id, name, "Asst. Dr.", "ara", None, limits[1], limits[2])

\* The planned month starts on a Thursday; HolidayMonth is the same month
\* with every day a public holiday.
TheMonth == [first_weekday |-> 3, days |-> NumDays, holidays |-> {}]
LastDay == NumDays - 1
HolidayMonth == [first_weekday |-> 3, days |-> NumDays, holidays |-> 0..LastDay]

ClinicRosters ==
    {<<Resident(1, "ada", a), Resident(2, "Baran", "comez"), Resident(3, "cem", "comez")>> :
        a \in {"kidemli", "comez"}}
    \cup {<<Resident(1, "ada", a), YearResident(2, "Baran"), Specialist(3, "cem")>> :
        a \in {"kidemli", "comez"}}

ClinicRow(required_assistants, rotation_period) ==
    [id |-> 1, name |-> "Derm", required_assistants |-> required_assistants,
     rotation_period |-> rotation_period]

ClinicRowChoices ==
    {<<ClinicRow(1, "daily")>>, <<ClinicRow(1, "weekly")>>,
     <<ClinicRow(2, "weekly")>>, <<ClinicRow(2, "monthly")>>}

MesaDuty == [id |-> 7, name |-> "mesai", duty_category |-> "mesa",
             duration_hours |-> 8, required_staff_count |-> 1]
CapDuty == [id |-> 8, name |-> "cap", duty_category |-> "nobet",
            duration_hours |-> 24, required_staff_count |-> 1]
NightDuty(hours, count) ==
    [id |-> 9, name |-> "gece", duty_category |-> "nobet",
     duration_hours |-> hours, required_staff_count |-> count]

\* the same duties as an operator may have typed them
UpperMesaDuty == [MesaDuty EXCEPT !.duty_category = "Mesa "]
SpacedCapDuty == [CapDuty EXCEPT !.name = " Cap ", !.duty_category = ""]
\* a duty named "cap" that is not a nobet duty
MesaCapDuty == [CapDuty EXCEPT !.duty_category = "mesa"]

ClinicRuleChoices ==
    {EmptyMap,
     1 :> [kidemli |-> 1, stajyer |-> 1],
     1 :> [kidemli |-> 1, comez |-> 1],
     1 :> [uzman |-> 1],
     1 :> [kidemli |-> 2]}

\* leave rows per staff id, as stored (start and end possibly swapped)
ClinicLeaveChoices ==
    {(1 :> a) @@ (2 :> b) :
        a \in {<<>>, <<<<1, 1>>>>, <<<<0, 0>>, <<1, 1>>>>, <<<<1, 0>>>>},
        b \in {<<>>, <<<<0, 0>>>>}}

\* history rows of earlier periods
HistoryRow(staff_id, clinic_id, day_type) ==
    [staff_id |-> staff_id, clinic_id |-> clinic_id, day_type |-> day_type]

NoLeave == EmptyMap

\* A month of fifteen days that starts on a Monday, one clinic with one
\* position and weekly rotation, a resident of seniority ara and one of
\* seniority comez; no leave, no rules, no history.
RotationScenarioMonth == [first_weekday |-> 0, days |-> 15, holidays |-> {}]
RotationScenarioRepo ==
    [staff |-> <<Resident(1, "ada", "ara"), Resident(2, "Baran", "comez")>>,
     clinics |-> <<ClinicRow(1, "weekly")>>, rules |-> EmptyMap, duties |-> <<>>,
     leave |-> NoLeave, history |-> {}]

ClinicRepos ==
    {[staff |-> st, clinics |-> cl, rules |-> ru, duties |-> <<>>, leave |-> lv,
      history |-> {}] :
        st \in ClinicRosters, cl \in ClinicRowChoices, ru \in ClinicRuleChoices,
        lv \in ClinicLeaveChoices}
    \cup
    {[staff |-> st, clinics |-> cl, rules |-> EmptyMap, duties |-> du, leave |-> NoLeave,
      history |-> hi] :
        st \in {<<>>} \cup ClinicRosters,
        cl \in {<<>>, <<ClinicRow(1, "weekly")>>, <<ClinicRow(2, "daily")>>},
        du \in {<<>>, <<MesaDuty>>, <<UpperMesaDuty>>, <<NightDuty(8, 1)>>},
        hi \in {{}, {HistoryRow(1, Some(1), "weekday")}}}

NightLimitChoices ==
    {<<None, None>>, <<Some(1), None>>, <<None, Some(1)>>, <<Some(2), Some(1)>>,
     <<Some(0), Some(0)>>}

NightRoster(limits) ==
    <<Specialist(1, "Baran"), Specialist(2, "ada"),
      LimitedResident(3, "cem", limits),
      Resident(4, "Deniz", "kidemli"), Resident(5, "emre", "comez")>>

NightDutyChoices ==
    {<<CapDuty>>, <<CapDuty, NightDuty(8, 1)>>, <<CapDuty, NightDuty(16, 1)>>,
     <<NightDuty(24, 1), CapDuty>>}

\* leave of resident 3, and leave of the two specialists
NightLeaveChoices ==
    {3 :> c : c \in {<<>>, <<<<0, 0>>>>, <<<<0, LastDay>>>>}}

CapRoster ==
    <<Specialist(1, "Baran"), Specialist(2, "ada"), Specialist(6, "Filiz"),
      Resident(3, "cem", "ara"), Resident(4, "Deniz", "kidemli"),
      Resident(5, "emre", "comez")>>

CapLeaveChoices ==
    {(1 :> a) @@ (2 :> b) @@ (6 :> c) :
        a \in {<<>>, <<<<1, 1>>>>, <<<<2, 1>>>>},
        b \in {<<>>, <<<<1, 2>>>>},
        c \in {<<>>, <<<<0, 0>>, <<2, 2>>>>, <<<<1, 2>>>>}}

NightRepos ==
    {[staff |-> NightRoster(li), clinics |-> <<>>, rules |-> EmptyMap, duties |-> du,
      leave |-> lv, history |-> hi] :
        li \in NightLimitChoices, du \in NightDutyChoices, lv \in NightLeaveChoices,
        hi \in {{}, {HistoryRow(3, None, "weekend")}}}
    \cup
    {[staff |-> CapRoster, clinics |-> <<>>, rules |-> EmptyMap,
      duties |-> du, leave |-> lv, history |-> {}] :
        du \in {<<CapDuty>>, <<CapDuty, NightDuty(16, 1)>>}, lv \in CapLeaveChoices}
    \cup
    {[staff |-> st, clinics |-> <<>>, rules |-> EmptyMap, duties |-> du,
      leave |-> EmptyMap, history |-> hi] :
        st \in {<<>>,
                <<Specialist(1, "Baran")>>,
                <<Resident(3, "cem", "ara"), Resident(4, "Deniz", "ara")>>},
        du \in {<<>>, <<MesaDuty>>, <<MesaCapDuty>>, <<SpacedCapDuty>>,
                <<CapDuty, NightDuty(8, 1)>>},
        hi \in {{}, {HistoryRow(3, Some(1), "weekday")}}}

\* ------------------------------------------------- compute_plan: projections
\* leave_requests_map: staff id -> windows, start <= end
LeaveRequestsMap(leave_rows) ==
    LET keys == {k \in DOMAIN leave_rows : leave_rows[k] # <<>>}
    IN  [k \in keys |-> [w \in 1..Len(leave_rows[k]) |-> CanonicalWindow(leave_rows[k][w])]]

\* clinic_rotation_periods: clinic id -> rotation period
ClinicRotationPeriods(clinic_rows) ==
    [c \in {clinic_rows[i].id : i \in 1..Len(clinic_rows)} |->
        LET row == CHOOSE r \in SeqRange(clinic_rows) : r.id = c
        IN  IF row.rotation_period \in DOMAIN ROTATION_PERIOD_TO_DAYS
            THEN row.rotation_period ELSE DEFAULT_ROTATION_PERIOD]

\* clinic_repeat_payload: clinic id -> staff identifiers of last month's rows
ClinicRepeatPayload(history) ==
    LET rows == {h \in history : ~IsNone(h.clinic_id)}
    IN  [c \in {Val(h.clinic_id) : h \in rows} |->
            {StaffIdentifier(h.staff_id) : h \in {g \in rows : Val(g.clinic_id) = c}}]

\* The weekend history loop of the nobet plan calls history.get(..) on the
\* rows that list_assignment_history returns.  These are sqlite3.Row objects
\* (get_connection sets row_factory = sqlite3.Row), which have no method
\* get: the first row read raises AttributeError.  The clinic plan converts
\* each row with dict(row) first.
RowGetRaises(plan_type, history) == plan_type = "nobet" /\ history # {}

\* weekend_history_counts: staff identifier -> number of weekend rows
WeekendHistoryCounts(history) ==
    LET rows == {h \in history : h.day_type = "weekend"}
    IN  [k \in {StaffIdentifier(h.staff_id) : h \in rows} |->
            Cardinality({h \in rows : StaffIdentifier(h.staff_id) = k})]

DutiesOfCategory(duty_rows, category) ==
    SelectSeq(duty_rows, LAMBDA row : DutyCategory(row) = category)

\* cap_definition: the nobet duties whose name, stripped and lower-cased, is
\* "cap"; next(...) takes the first
CapDefinitions(duty_rows) ==
    SelectSeq(DutiesOfCategory(duty_rows, "nobet"),
              LAMBDA row : Lower(Strip(OrDefault(row.name, ""))) = "cap")

NightDuties(duty_rows) ==
    LET caps == CapDefinitions(duty_rows)
    IN  SelectSeq(DutiesOfCategory(duty_rows, "nobet"),
                  LAMBDA row : caps = <<>> \/ row # Head(caps))

ClinicPlanSlots ==
    slots_from_records(repo.clinics, DutiesOfCategory(repo.duties, "mesa"),
                       request.month, request.plan_type)

\* the three solve_schedule calls of the clinic path
ClinicArgs(with_repeat_history, with_seniority_rules) ==
    SolveArgs(people_from_records(repo.staff), ClinicPlanSlots, FALSE,
              ClinicRotationPeriods(repo.clinics),
              IF with_seniority_rules THEN repo.rules ELSE EmptyMap,
              EmptyMap,
              IF with_repeat_history THEN ClinicRepeatPayload(repo.history) ELSE EmptyMap,
              EmptyMap,
              LeaveRequestsMap(repo.leave),
              "seniority")

\* build_night_plan: the assistants and the slots of the night duties
AssistantPeople ==
    SelectSeq(people_from_records(repo.staff),
              LAMBDA person : TitleStartsWithAsst(person.title))

NightPlanSlots ==
    slots_from_records(<<>>, NightDuties(repo.duties), request.month, "nobet")

NightArgs(with_weekend_history) ==
    SolveArgs(AssistantPeople, NightPlanSlots, TRUE, EmptyMap, EmptyMap, EmptyMap,
              EmptyMap,
              IF with_weekend_history THEN WeekendHistoryCounts(repo.history) ELSE EmptyMap,
              LeaveRequestsMap(repo.leave),
              "balanced")

\* ------------------------------------------------------------- responses
RepeatNote == "repeat_penalty_disabled"
SeniorityNote == "seniority_requirements_relaxed"
WeekendNote == "weekend_history_relaxed"

NoResult == <<>>
NoResponse ==
    [kind |-> "none", result |-> NoResult, error |-> None, status |-> None, date |-> None]
Failure(error, status) ==
    [kind |-> "error", result |-> NoResult, error |-> Some(error), status |-> Some(status),
     date |-> None]
\* an error whose message names a date
DatedFailure(error, status, day) ==
    [Failure(error, status) EXCEPT !.date = Some(day)]
Success(assignments, notes) ==
    [kind |-> "ok",
     result |-> [assignments |-> assignments, fallback_notes |-> notes,
                 plan_type |-> request.plan_type],
     error |-> None, status |-> None, date |-> None]
\* an exception that leaves compute_plan instead of a returned triple
Raised(error) ==
    [kind |-> "raised", result |-> NoResult, error |-> Some(error), status |-> None,
     date |-> None]

Solve(args, outcome) == [args |-> args, outcome |-> outcome]
LastSolve == solves[Len(solves)]

\* assignments of a solved call
SolvedAssignments(solve) == get_assignments(Prototype(solve.args), solve.outcome.x)

\* combined_assignments.sort(key=start)
MergedAssignments(cap_assignments, night_assignments) ==
    LET all == cap_assignments \o night_assignments
    IN  StableSort(all, [i \in 1..Len(all) |-> all[i].start])

\* ------------------------------------------------- assignment history
\* The two requests that may approve plans at the same time.
Procs == {1, 2}

\* A row of assignment_history of the planned (unit, period).
HistoryEntry(staff_id, clinic_id, assignment_date, day_type) ==
    [staff_id |-> staff_id, clinic_id |-> clinic_id,
     assignment_date |-> assignment_date, day_type |-> day_type]

\* The unit and the plan period of the approval requests; table holds the
\* rows of this unit and period.
ApprovalScope == [unit_id |-> 1, plan_month_year |-> <<2025, 1>>]

\* assignment_history rows of the same unit in another period and of another
\* unit in the same period
OtherHistoryRows ==
    <<[unit_id |-> 1, plan_month_year |-> <<2024, 12>>,
       entry |-> HistoryEntry(3, Some(1), 0, "weekday")],
      [unit_id |-> 2, plan_month_year |-> <<2025, 1>>,
       entry |-> HistoryEntry(5, None, 2, "weekend")]>>

\* DELETE FROM assignment_history WHERE plan_month_year = ? AND unit_id = ?
DeleteWhere_PeriodOnly(rows, plan_month_year, unit_id) ==
    SelectSeq(rows, LAMBDA row : row.plan_month_year # plan_month_year)

DeleteWhere(rows, plan_month_year, unit_id) ==
    SelectSeq(rows, LAMBDA row : ~(row.plan_month_year = plan_month_year
                                   /\ row.unit_id = unit_id))

IdleApproval ==
    [pc |-> "idle", plan_type |-> "clinic", assignments |-> <<>>, new_entries |-> <<>>,
     combined |-> <<>>, before |-> <<>>, working |-> <<>>, alone |-> TRUE]

HistoryInit ==
    /\ table = <<>>
    /\ approval = [p \in Procs |-> IdleApproval]
    /\ write_lock = None
    /\ snapshot = [rows |-> <<>>, writer |-> None, before |-> <<>>]
    /\ log = [ended |-> 0, one_at_a_time |-> TRUE, last |-> EmptyMap,
              plan_error_rows |-> None]
    /\ elsewhere = OtherHistoryRows

NotConverted == [people |-> None, slots |-> None]

\* -------------------------------------------------------------------- Init
NoCapResult == CapResult(FALSE, None, <<>>, <<0>>)

Init ==
    /\ \/ /\ repo \in ClinicRepos
          /\ request \in {[plan_type |-> "clinic", month |-> TheMonth]}
       \/ /\ repo \in {r \in ClinicRepos : r.leave = NoLeave /\ r.history = {}}
          /\ request \in {[plan_type |-> "clinic", month |-> HolidayMonth]}
       \/ /\ repo = RotationScenarioRepo
          /\ request = [plan_type |-> "clinic", month |-> RotationScenarioMonth]
       \/ /\ repo \in NightRepos
          /\ request \in {[plan_type |-> "nobet", month |-> TheMonth]}
    /\ pc = "idle"
    /\ solves = <<>>
    /\ cap_result = NoCapResult
    /\ fallback_notes = <<>>
    /\ response = NoResponse
    /\ HistoryInit
    /\ converted = NotConverted

\* ------------------------------------------------------------ compute_plan
Return(resp) ==
    /\ response' = resp
    /\ pc' = "done"

\* compute_plan up to the first solver call: the precondition checks
ComputePlanBegin ==
    /\ pc = "idle"
    /\ UNCHANGED <<history_vars, converted>>
    /\ UNCHANGED <<repo, request, solves, cap_result, fallback_notes>>
    /\ IF repo.staff = <<>>
       THEN Return(Failure("NoStaff", StatusBadRequest))
       ELSE IF RowGetRaises(request.plan_type, repo.history)
       THEN \* no handler in compute_plan
            response' = Raised("AttributeError") /\ pc' = "raised"
       ELSE IF request.plan_type = "nobet"
       THEN IF CapDefinitions(repo.duties) = <<>>
            THEN Return(Failure("MissingCapDuty", StatusBadRequest))
            ELSE pc' = "cap" /\ UNCHANGED response
       ELSE IF repo.clinics = <<>> /\ DutiesOfCategory(repo.duties, "mesa") = <<>>
            THEN Return(Failure("NoWorkToPlan", StatusBadRequest))
            ELSE IF ClinicPlanSlots = <<>>
            THEN Return(Failure("NoSlotsGenerated", StatusBadRequest))
            ELSE pc' = "attempt1" /\ UNCHANGED response

\* first attempt: full constraints
ClinicAttempt1 ==
    /\ pc = "attempt1"
    /\ UNCHANGED <<history_vars, converted>>
    /\ \E outcome \in SolveOutcomes(ClinicArgs(TRUE, TRUE)) :
         LET solve == Solve(ClinicArgs(TRUE, TRUE), outcome)
         IN  /\ solves' = Append(solves, solve)
             /\ UNCHANGED <<repo, request, cap_result, fallback_notes>>
             /\ CASE outcome.kind = "ok" ->
                        Return(Success(SolvedAssignments(solve), fallback_notes))
                  [] outcome.kind = "RuntimeError" ->
                        pc' = "attempt2" /\ UNCHANGED response
                  [] OTHER ->
                        \* except Exception
                        Return(Failure(outcome.detail, StatusServerError))

\* second attempt, inside the handler of the first RuntimeError:
\* clinic_repeat_history=None
ClinicAttempt2 ==
    /\ pc = "attempt2"
    /\ UNCHANGED <<history_vars, converted>>
    /\ \E outcome \in SolveOutcomes(ClinicArgs(FALSE, TRUE)) :
         LET solve == Solve(ClinicArgs(FALSE, TRUE), outcome)
         IN  /\ solves' = Append(solves, solve)
             /\ UNCHANGED <<repo, request, cap_result>>
             /\ CASE outcome.kind = "ok" ->
                        /\ fallback_notes' = Append(fallback_notes, RepeatNote)
                        /\ Return(Success(SolvedAssignments(solve),
                                          Append(fallback_notes, RepeatNote)))
                  [] outcome.kind = "RuntimeError" ->
                        pc' = "attempt3" /\ UNCHANGED <<response, fallback_notes>>
                  [] OTHER ->
                        \* no handler encloses the ValueError here
                        /\ response' = Raised(outcome.detail)
                        /\ pc' = "raised"
                        /\ UNCHANGED fallback_notes

\* third attempt, inside the handler of the second RuntimeError:
\* clinic_seniority_rules=None as well
ClinicAttempt3 ==
    /\ pc = "attempt3"
    /\ UNCHANGED <<history_vars, converted>>
    /\ \E outcome \in SolveOutcomes(ClinicArgs(FALSE, FALSE)) :
         LET solve == Solve(ClinicArgs(FALSE, FALSE), outcome)
         IN  /\ solves' = Append(solves, solve)
             /\ UNCHANGED <<repo, request, cap_result>>
             /\ CASE outcome.kind = "ok" ->
                        /\ fallback_notes' = Append(fallback_notes, SeniorityNote)
                        /\ Return(Success(SolvedAssignments(solve),
                                          Append(fallback_notes, SeniorityNote)))
                  [] outcome.kind = "RuntimeError" ->
                        /\ Return(Failure("SolverFailed", StatusServerError))
                        /\ UNCHANGED fallback_notes
                  [] OTHER ->
                        /\ response' = Raised(outcome.detail)
                        /\ pc' = "raised"
                        /\ UNCHANGED fallback_notes

\* night path: the on-call plan of the specialists
BuildCapPlan ==
    /\ pc = "cap"
    /\ UNCHANGED <<history_vars, converted>>
    /\ UNCHANGED <<repo, request, solves, fallback_notes>>
    /\ LET result == build_cap_plan(people_from_records(repo.staff),
                                    Head(CapDefinitions(repo.duties)),
                                    request.month, LeaveRequestsMap(repo.leave))
       IN  IF result.ok
           THEN /\ cap_result' = result
                /\ pc' = "night"
                /\ UNCHANGED response
           ELSE /\ UNCHANGED cap_result
                /\ Return(IF IsNone(result.failed_day)
                          THEN Failure("NoSpecialist", StatusBadRequest)
                          ELSE DatedFailure("AllSpecialistsOnLeave", StatusBadRequest,
                                            Val(result.failed_day)))

InvalidLimits(person) ==
    /\ ~IsNone(person.min_night_duties)
    /\ ~IsNone(person.max_night_duties)
    /\ Val(person.min_night_duties) > Val(person.max_night_duties)

\* build_night_plan up to its first solver call
BuildNightPlanBegin ==
    /\ pc = "night"
    /\ UNCHANGED <<history_vars, converted>>
    /\ UNCHANGED <<repo, request, solves, cap_result, fallback_notes>>
    /\ IF NightDuties(repo.duties) = <<>>
       THEN Return(Success(MergedAssignments(cap_result.assignments, <<>>), <<>>))
       ELSE IF \E i \in 1..Len(AssistantPeople) : InvalidLimits(AssistantPeople[i])
       THEN Return(Failure("InvalidLimits", StatusBadRequest))
       ELSE IF AssistantPeople = <<>>
       THEN Return(Failure("NoAssistant", StatusBadRequest))
       ELSE IF NightPlanSlots = <<>>
       THEN Return(Success(MergedAssignments(cap_result.assignments, <<>>), <<>>))
       ELSE pc' = "night_attempt1" /\ UNCHANGED response

\* build_night_plan: result_dict["fallback_notes"]
NightFallbackNotes_Always(used_relaxed_weekend) == <<WeekendNote>>

NightFallbackNotes(used_relaxed_weekend) ==
    IF used_relaxed_weekend THEN <<WeekendNote>> ELSE <<>>

\* build_night_plan: first call, with the weekend history
NightAttempt1 ==
    /\ pc = "night_attempt1"
    /\ UNCHANGED <<history_vars, converted>>
    /\ \E outcome \in SolveOutcomes(NightArgs(TRUE)) :
         LET solve == Solve(NightArgs(TRUE), outcome)
         IN  /\ solves' = Append(solves, solve)
             /\ UNCHANGED <<repo, request, cap_result, fallback_notes>>
             /\ CASE outcome.kind = "ok" ->
                        Return(Success(MergedAssignments(cap_result.assignments,
                                                         SolvedAssignments(solve)),
                                       NightFallbackNotes(FALSE)))
                  [] outcome.kind = "RuntimeError" ->
                        pc' = "night_retry" /\ UNCHANGED response
                  [] OTHER ->
                        \* compute_plan: except ValueError
                        Return(Failure(outcome.detail, StatusBadRequest))

\* build_night_plan: the retry with weekend_history_counts=None
NightRetry ==
    /\ pc = "night_retry"
    /\ UNCHANGED <<history_vars, converted>>
    /\ \E outcome \in SolveOutcomes(NightArgs(FALSE)) :
         LET solve == Solve(NightArgs(FALSE), outcome)
         IN  /\ solves' = Append(solves, solve)
             /\ UNCHANGED <<repo, request, cap_result>>
             /\ CASE outcome.kind = "ok" ->
                        /\ fallback_notes' = NightFallbackNotes(TRUE)
                        /\ Return(Success(MergedAssignments(cap_result.assignments,
                                                            SolvedAssignments(solve)),
                                          NightFallbackNotes(TRUE)))
                  [] outcome.kind = "RuntimeError" ->
                        \* raise ValueError(...) from exc; compute_plan: except ValueError
                        /\ Return(Failure("SolverFailed", StatusBadRequest))
                        /\ UNCHANGED fallback_notes
                  [] OTHER ->
                        /\ Return(Failure(outcome.detail, StatusBadRequest))
                        /\ UNCHANGED fallback_notes

\* solve_schedule called with a clinic_forbidden_people map (compute_plan
\* passes none)
ForbiddenChoices ==
    {1 :> {StaffIdentifier(1)}, 1 :> {StaffIdentifier(2), StaffIdentifier(3)}}

SolveScheduleCall ==
    /\ pc = "idle"
    /\ UNCHANGED <<history_vars, converted>>
    /\ request.plan_type = "clinic"
    /\ repo.staff # <<>>
    /\ ClinicPlanSlots # <<>>
    /\ \E forbidden \in ForbiddenChoices :
         LET args == [ClinicArgs(TRUE, TRUE) EXCEPT !.clinic_forbidden_people = forbidden]
         IN  \E outcome \in SolveOutcomes(args) :
               /\ solves' = Append(solves, Solve(args, outcome))
               /\ pc' = "called"
               /\ UNCHANGED <<repo, request, cap_result, fallback_notes, response>>

Next ==
    \/ ComputePlanBegin
    \/ ClinicAttempt1
    \/ ClinicAttempt2
    \/ ClinicAttempt3
    \/ BuildCapPlan
    \/ BuildNightPlanBegin
    \/ NightAttempt1
    \/ NightRetry
    \/ SolveScheduleCall

Spec == Init /\ [][Next]_vars

\* ---------------------------------------------------------- planla_approve
\* The unit whose plans are approved: a specialist and two residents, one
\* of them on leave from the second day on, one clinic, a mesa duty, the cap
\* duty and a night duty; no history in the earlier periods.  The second
\* day of the month is a public holiday.
ApprovalMonth == [first_weekday |-> 3, days |-> NumDays, holidays |-> {1}]

ApprovalRepo ==
    [staff   |-> <<Specialist(1, "Baran"), Resident(3, "cem", "ara"),
                   Resident(4, "Deniz", "kidemli")>>,
     clinics |-> <<ClinicRow(1, "daily")>>,
     rules   |-> EmptyMap,
     duties  |-> <<MesaDuty, CapDuty, NightDuty(8, 1)>>,
     leave   |-> 3 :> <<<<1, LastDay>>>>,
     history |-> {}]

\* result["assignments"] of the compute_plan calls that return a plan
ApprovalClinicPlans ==
    LET args == SolveArgs(people_from_records(ApprovalRepo.staff),
                          slots_from_records(ApprovalRepo.clinics,
                                             DutiesOfCategory(ApprovalRepo.duties, "mesa"),
                                             ApprovalMonth, "clinic"),
                          FALSE, ClinicRotationPeriods(ApprovalRepo.clinics),
                          ApprovalRepo.rules, EmptyMap, EmptyMap, EmptyMap,
                          LeaveRequestsMap(ApprovalRepo.leave), "seniority")
    IN  {get_assignments(Prototype(args), outcome.x) :
            outcome \in {o \in SolveOutcomes(args) : o.kind = "ok"}}

ApprovalNightPlans ==
    LET people == people_from_records(ApprovalRepo.staff)
        leave_requests == LeaveRequestsMap(ApprovalRepo.leave)
        cap == build_cap_plan(people, Head(CapDefinitions(ApprovalRepo.duties)),
                              ApprovalMonth, leave_requests)
        args == SolveArgs(SelectSeq(people, LAMBDA person : TitleStartsWithAsst(person.title)),
                          slots_from_records(<<>>, NightDuties(ApprovalRepo.duties),
                                             ApprovalMonth, "nobet"),
                          TRUE, EmptyMap, EmptyMap, EmptyMap, EmptyMap, EmptyMap,
                          leave_requests, "balanced")
    IN  {MergedAssignments(cap.assignments, get_assignments(Prototype(args), outcome.x)) :
            outcome \in {o \in SolveOutcomes(args) : o.kind = "ok"}}

_extract_clinic_id(slot_identifier) ==
    IF slot_identifier[1] # "clinic" THEN None
    ELSE IF Len(slot_identifier) < 2 THEN None
    ELSE Some(slot_identifier[2])

_classify_day_type_SundayOnly(month, day) ==
    IF Weekday(month, day) > FirstWeekendWeekday THEN "weekend" ELSE "weekday"

_classify_day_type(month, day) ==
    IF Weekday(month, day) >= FirstWeekendWeekday THEN "weekend" ELSE "weekday"

\* planla_approve: new_entries, the rows of the computed plan that are stored
NewEntries(plan_type, assignments) ==
    LET staff_id(a) == IF IsNone(a.person_id) THEN None
                       ELSE StaffIdOfIdentifier(Val(a.person_id))
        stored(a) ==
            /\ IF plan_type = "clinic"
               THEN ~IsNone(_extract_clinic_id(a.slot_id))
               ELSE a.slot_id[1] = "duty"
            /\ ~IsNone(staff_id(a))
        kept == SelectSeq(assignments, stored)
    IN  [i \in 1..Len(kept) |->
            HistoryEntry(Val(staff_id(kept[i])),
                         IF plan_type = "clinic" THEN _extract_clinic_id(kept[i].slot_id)
                         ELSE None,
                         kept[i].start \div HoursPerDay,
                         _classify_day_type(ApprovalMonth, kept[i].start \div HoursPerDay))]

\* with get_connection() as conn: the DELETE and the INSERTs run in one
\* transaction.  Its changes are not visible to other connections before the
\* commit, and are dropped by a rollback: others read the committed rows.
RowsSeenByOthers_Uncommitted(committed_rows, working_rows) == working_rows

RowsSeenByOthers(committed_rows, working_rows) == committed_rows

ActiveProcs == {p \in Procs : approval[p].pc # "idle"}

\* the request of p ends: its record joins the log
Ended(plan_type, new_entries, outcome, alone) ==
    [ended         |-> log.ended + 1,
     one_at_a_time |-> log.one_at_a_time /\ alone,
     last          |-> (plan_type :> [new_entries |-> new_entries, outcome |-> outcome])
                       @@ log.last,
     plan_error_rows |-> log.plan_error_rows]

EndApproval(p, outcome) ==
    /\ log' = Ended(approval[p].plan_type, approval[p].new_entries, outcome,
                    approval[p].alone)
    /\ approval' = [approval EXCEPT ![p] = IdleApproval]

\* if error_message or not result: return redirect(..).  The request ends
\* before the history is read or written.
HistoryAfterPlanError_Cleared(rows) == <<>>

HistoryAfterPlanError(rows) == rows

\* planla_approve up to the entries of the new plan: compute_plan and the
\* loop over its assignments
ApproveBegin(p) ==
    /\ approval[p].pc = "idle"
    /\ log.ended + Cardinality(ActiveProcs) < MaxApprovals
    /\ UNCHANGED <<plan_vars, converted, elsewhere, write_lock, snapshot>>
    /\ \E plan_type \in {"clinic", "nobet"} :
          \/ \E plan \in (IF plan_type = "clinic" THEN ApprovalClinicPlans
                           ELSE ApprovalNightPlans) :
                /\ approval' =
                      [q \in Procs |->
                          IF q = p
                          THEN [IdleApproval EXCEPT
                                   !.pc = "read",
                                   !.plan_type = plan_type,
                                   !.assignments = plan,
                                   !.new_entries = NewEntries(plan_type, plan),
                                   !.alone = (ActiveProcs = {})]
                          ELSE IF q \in ActiveProcs
                          THEN [approval[q] EXCEPT !.alone = FALSE]
                          ELSE approval[q]]
                /\ UNCHANGED <<log, table>>
          \/ \* compute_plan returned an error: redirect
             /\ log' = [log EXCEPT !.ended = log.ended + 1,
                                   !.plan_error_rows = Some(Len(table))]
             /\ table' = HistoryAfterPlanError(table)
             /\ UNCHANGED approval

\* existing_rows = list(list_assignment_history(..)) and the loop over them.
\* The rows are sqlite3.Row objects and the loop calls record.get(..) on
\* each: with one row or more the request ends in AttributeError before
\* preserved_entries is built; without rows preserved_entries is empty.
ApproveRead(p) ==
    /\ approval[p].pc = "read"
    /\ UNCHANGED <<plan_vars, converted, elsewhere, table, write_lock, snapshot>>
    /\ IF table # <<>>
       THEN EndApproval(p, "AttributeError")
       ELSE /\ approval' = [approval EXCEPT ![p].pc = "replace",
                                            ![p].combined = approval[p].new_entries]
            /\ UNCHANGED log

\* replace_assignment_history: the DELETE, which opens the transaction and
\* takes the write lock
ReplaceDelete(p) ==
    /\ approval[p].pc = "replace"
    /\ write_lock = None
    /\ write_lock' = Some(p)
    /\ approval' = [approval EXCEPT ![p].pc = "insert",
                                    ![p].before = table,
                                    ![p].working = <<>>]
    /\ table' = RowsSeenByOthers(table, <<>>)
    /\ UNCHANGED <<plan_vars, converted, elsewhere, snapshot, log>>

\* the DELETE meets the write lock of another connection until the busy
\* timeout expires: sqlite3.OperationalError
ReplaceBusy(p) ==
    /\ approval[p].pc = "replace"
    /\ write_lock # None
    /\ EndApproval(p, "OperationalError")
    /\ UNCHANGED <<plan_vars, converted, elsewhere, table, write_lock, snapshot>>

\* executemany(INSERT ..): every row is inserted, or a row is rejected
\* (foreign keys are on) and the with-block rolls the transaction back
ReplaceInsert(p) ==
    /\ approval[p].pc = "insert"
    /\ UNCHANGED <<plan_vars, converted, elsewhere, snapshot>>
    /\ \/ /\ approval' = [approval EXCEPT ![p].pc = "commit",
                                           ![p].working = approval[p].combined]
          /\ table' = RowsSeenByOthers(table, approval[p].combined)
          /\ UNCHANGED <<write_lock, log>>
       \/ /\ approval[p].combined # <<>>
          /\ table' = RowsSeenByOthers(approval[p].before, approval[p].working)
          /\ write_lock' = None
          /\ EndApproval(p, "IntegrityError")

\* conn.commit()
ReplaceCommit(p) ==
    /\ approval[p].pc = "commit"
    /\ table' = approval[p].working
    /\ write_lock' = None
    /\ EndApproval(p, "saved")
    /\ elsewhere' = DeleteWhere(elsewhere, ApprovalScope.plan_month_year,
                                ApprovalScope.unit_id)
    /\ UNCHANGED <<plan_vars, converted, snapshot>>

\* list_assignment_history of another request
ListHistory ==
    /\ snapshot' = [rows |-> table, writer |-> write_lock,
                    before |-> IF write_lock = None THEN table
                               ELSE approval[Val(write_lock)].before]
    /\ UNCHANGED <<plan_vars, converted, elsewhere, table, approval, write_lock, log>>

ApprovalInit ==
    /\ repo = ApprovalRepo
    /\ request = [plan_type |-> "clinic", month |-> TheMonth]
    /\ pc = "idle"
    /\ solves = <<>>
    /\ cap_result = NoCapResult
    /\ fallback_notes = <<>>
    /\ response = NoResponse
    /\ HistoryInit
    /\ converted = NotConverted

ApprovalNext ==
    \/ \E p \in Procs : ApproveBegin(p)
    \/ \E p \in Procs : ApproveRead(p)
    \/ \E p \in Procs : ReplaceDelete(p)
    \/ \E p \in Procs : ReplaceBusy(p)
    \/ \E p \in Procs : ReplaceInsert(p)
    \/ \E p \in Procs : ReplaceCommit(p)
    \/ ListHistory

ApprovalSpec == ApprovalInit /\ [][ApprovalNext]_vars

\* ------------------------------------- the record conversions on their own
\* Staff rows as the staff table may hold them.
SeniorityChoices == {"kidemli", "Kidemli ", "comez", "uzman", "stajyer", ""}
LimitChoices == {None, Some(-1), Some(0), Some(1), Some(2)}

RecordStaffRows ==
    {StaffRow(1, "ada", title, seniority, None, min_night, max_night) :
        title \in Titles, seniority \in SeniorityChoices,
        min_night \in LimitChoices, max_night \in LimitChoices}

\* Clinic rows and duty rows, months and plan types for slots_from_records.
RecordClinicRows ==
    {<<>>, <<ClinicRow(1, "daily")>>, <<ClinicRow(2, "weekly")>>,
     <<ClinicRow(3, "daily"), [ClinicRow(1, "daily") EXCEPT !.id = 2]>>}

RecordDutyRows ==
    {<<>>, <<MesaDuty>>, <<UpperMesaDuty, NightDuty(16, 2)>>, <<SpacedCapDuty, MesaDuty>>,
     <<NightDuty(8, 1), [MesaDuty EXCEPT !.required_staff_count = 2]>>,
     <<NightDuty(24, 1), CapDuty>>,
     <<NightDuty(20, 1), [NightDuty(8, 2) EXCEPT !.id = 10]>>}

RecordMonths ==
    {TheMonth, HolidayMonth, ApprovalMonth,
     [first_weekday |-> 5, days |-> NumDays, holidays |-> {LastDay}]}

RecordsInit ==
    /\ \/ /\ repo \in {[ApprovalRepo EXCEPT !.staff = <<row>>] : row \in RecordStaffRows}
          /\ request = [plan_type |-> "clinic", month |-> TheMonth]
       \/ /\ repo \in {[ApprovalRepo EXCEPT !.clinics = cl, !.duties = du] :
                            cl \in RecordClinicRows, du \in RecordDutyRows}
          /\ request \in {[plan_type |-> pt, month |-> mo] :
                              pt \in {"clinic", "nobet"}, mo \in RecordMonths}
    /\ pc = "idle"
    /\ solves = <<>>
    /\ cap_result = NoCapResult
    /\ fallback_notes = <<>>
    /\ response = NoResponse
    /\ HistoryInit
    /\ converted = NotConverted

PeopleFromRecords ==
    /\ IsNone(converted.people)
    /\ converted' = [converted EXCEPT !.people = Some(people_from_records(repo.staff))]
    /\ UNCHANGED <<plan_vars, history_vars>>

SlotsFromRecords ==
    /\ IsNone(converted.slots)
    /\ converted' = [converted EXCEPT
                        !.slots = Some(slots_from_records(repo.clinics, repo.duties,
                                                          request.month, request.plan_type))]
    /\ UNCHANGED <<plan_vars, history_vars>>

RecordsNext == PeopleFromRecords \/ SlotsFromRecords

RecordsSpec == RecordsInit /\ [][RecordsNext]_vars

\* ------------------------------------------------------------- properties
\* The solve_schedule calls that returned a plan, and the plan of a call: the
\* prototype the call built, the solver's valuation and the assignments
\* that get_assignments read from it.
SolvedCalls == {i \in 1..Len(solves) : solves[i].outcome.kind = "ok"}

Plan(i) ==
    LET self == Prototype(solves[i].args)
    IN  [args        |-> solves[i].args,
         self        |-> self,
         assignments |-> get_assignments(self, solves[i].outcome.x)]

\* person p is the occupant of slot s in the returned assignments
Occupies(plan, p, s) ==
    plan.assignments[s].person_id = Some(plan.self.people[p].identifier)

Occupants(plan, s) == {p \in PIdx(plan.self) : Occupies(plan, p, s)}

SlotsOf(plan, p) == {s \in SIdx(plan.self) : Occupies(plan, p, s)}

\* C1: in every plan that solve_schedule returns, every slot handed to the
\* solver has exactly one assigned person: there is one assignment per slot,
\* its person_id is set, and exactly one assignment variable of the slot is
\* true.
C1_EverySlotHasOnePerson ==
    \A i \in SolvedCalls :
        LET plan == Plan(i)
        IN  /\ Len(plan.assignments) = Len(plan.args.slots)
            /\ \A s \in 1..Len(plan.args.slots) :
                  /\ plan.assignments[s].slot_id = plan.args.slots[s].identifier
                  /\ ~IsNone(plan.assignments[s].person_id)
                  /\ Cardinality(solves[i].outcome.x[s]) = 1
                  /\ Cardinality(Occupants(plan, s)) = 1

C1_Witness ==
    \E i \in SolvedCalls :
        /\ Len(solves[i].args.slots) >= 2
        /\ \E s, t \in 1..Len(solves[i].args.slots) :
              Occupants(Plan(i), s) # Occupants(Plan(i), t)

\* C2: in every returned plan, two slots of one person never overlap in
\* time, and when both last 16 hours or more the later one starts at least
\* 48 hours after the earlier one ends.
LongSlot(slot) == slot.duration_hours >= ExtendedRestHours

C2_NoOverlapAndRest ==
    \A i \in SolvedCalls :
        LET plan == Plan(i)
        IN  \A p \in PIdx(plan.self) :
              \A a, b \in SlotsOf(plan, p) :
                 LET first == plan.args.slots[a]
                     second == plan.args.slots[b]
                 IN  (a # b /\ first.start <= second.start) =>
                        /\ first.start + first.duration_hours <= second.start
                        /\ (LongSlot(first) /\ LongSlot(second)) =>
                              second.start >=
                                 first.start + first.duration_hours + RestBufferHours

C2_Witness ==
    \E i \in SolvedCalls :
        LET plan == Plan(i)
        IN  \E p \in PIdx(plan.self) :
              \E a, b \in SlotsOf(plan, p) :
                 /\ a # b
                 /\ LongSlot(plan.args.slots[a])
                 /\ LongSlot(plan.args.slots[b])

\* C3: in every returned clinic plan, for every clinic, rotation block and
\* position, the person assigned is the same on every day of the block,
\* whatever the leave windows are.
C3_SamePersonAcrossBlock ==
    \A i \in SolvedCalls :
        LET plan == Plan(i)
        IN  \A block \in RotationBlocks(plan.self) :
              \A s, t \in block.members :
                 plan.assignments[s].person_id = plan.assignments[t].person_id

\* a returned plan with a rotation block of two days or more
C3_BlockPlanned ==
    \E i \in SolvedCalls :
        \E block \in RotationBlocks(Plan(i).self) : Cardinality(block.members) >= 2

\* C4: in every returned plan, no person occupies a slot that overlaps any
\* of the person's leave windows (00:00 of the first day to the end of the
\* last day), and the model keeps every window passed in
\* staff_leave_requests.
RequestedWindows(args, p) ==
    LET staff_id == StaffIdOfIdentifier(args.people[p].identifier)
    IN  IF IsNone(staff_id) THEN <<>> ELSE Get(args.staff_leave_requests, Val(staff_id), <<>>)

SlotInsideWindow(slot, window) ==
    /\ slot.start < (window[2] + 1) * HoursPerDay
    /\ slot.start + slot.duration_hours > window[1] * HoursPerDay

C4_NoSlotDuringLeave ==
    \A i \in SolvedCalls :
        LET plan == Plan(i)
        IN  \A p \in PIdx(plan.self) :
              LET windows == RequestedWindows(plan.args, p)
              IN  /\ \A w \in 1..Len(windows) :
                        \A s \in SlotsOf(plan, p) :
                           ~SlotInsideWindow(plan.args.slots[s], windows[w])
                  /\ Len(Get(plan.self.person_leave_windows,
                             plan.args.people[p].identifier, <<>>)) = Len(windows)

\* a returned plan for a person with two leave windows
C4_TwoWindowsPlanned ==
    \E i \in SolvedCalls :
        \E p \in 1..Len(solves[i].args.people) :
            Len(RequestedWindows(solves[i].args, p)) >= 2

\* C5: in every returned night-duty plan (enforce_person_limits on), the
\* number of slots of every resident lies within the resident's
\* min_night_duties and max_night_duties, also for a resident who is
\* eligible for no slot.
C5_LoadWithinLimits ==
    \A i \in SolvedCalls :
        LET plan == Plan(i)
        IN  plan.args.enforce_person_limits =>
              \A p \in PIdx(plan.self) :
                 LET person == plan.args.people[p]
                     load == Cardinality(SlotsOf(plan, p))
                 IN  /\ ~IsNone(person.min_night_duties) =>
                           load >= Val(person.min_night_duties)
                     /\ ~IsNone(person.max_night_duties) =>
                           load <= Val(person.max_night_duties)

\* a returned night-duty plan with a resident who has a minimum and is on
\* leave during every slot
C5_IneligibleResidentPlanned ==
    \E i \in SolvedCalls :
        LET plan == Plan(i)
        IN  /\ plan.args.enforce_person_limits
            /\ \E p \in PIdx(plan.self) :
                  /\ ~IsNone(plan.args.people[p].min_night_duties)
                  /\ Val(plan.args.people[p].min_night_duties) >= 1
                  /\ \A s \in SIdx(plan.self) : ~HasVariable(plan.self, p, s)

\* C6: in every clinic plan solved with seniority rules in force, for each
\* clinic, rotation block and rule (k, c) with c > 0, the block's positions
\* held by a person of seniority k plus the fallback count equal c, the
\* fallback count being the positions held by other residents, between 0
\* and c.  The holder of a position is its occupant on the first day of the
\* block.
BlockKeysOf(plan, clinic_id) ==
    {block.block_key : block \in {b \in RotationBlocks(plan.self) : b.clinic_id = clinic_id}}

\* the occupants of the positions of one block of a clinic
PositionHolders(plan, clinic_id, block_key) ==
    LET blocks == {b \in RotationBlocks(plan.self) :
                      b.clinic_id = clinic_id /\ b.block_key = block_key}
    IN  [position \in {b.position : b \in blocks} |->
            LET block == CHOOSE b \in blocks : b.position = position
                first_day == CHOOSE s \in block.members :
                                \A t \in block.members :
                                    plan.args.slots[s].start <= plan.args.slots[t].start
            IN  CHOOSE p \in PIdx(plan.self) : Occupies(plan, p, first_day)]

IsResident(person) ==
    TitleStartsWithAsst(person.title) \/ ~IsNone(person.education_year)

ExactCount(plan, holders, k) ==
    Cardinality({pos \in DOMAIN holders : plan.args.people[holders[pos]].seniority = k})

FallbackCount(plan, holders, k) ==
    Cardinality({pos \in DOMAIN holders :
                    /\ plan.args.people[holders[pos]].seniority # k
                    /\ IsResident(plan.args.people[holders[pos]])})

RulesInForce(plan, clinic_id) ==
    {k \in DOMAIN plan.self.clinic_seniority_rules[clinic_id] :
        plan.self.clinic_seniority_rules[clinic_id][k] > 0}

C6_SeniorityComposition ==
    \A i \in SolvedCalls :
        LET plan == Plan(i)
        IN  \A clinic_id \in DOMAIN plan.self.clinic_seniority_rules :
              \A block_key \in BlockKeysOf(plan, clinic_id) :
                 \A k \in RulesInForce(plan, clinic_id) :
                    LET holders == PositionHolders(plan, clinic_id, block_key)
                        c == plan.self.clinic_seniority_rules[clinic_id][k]
                        fallback == FallbackCount(plan, holders, k)
                    IN  /\ ExactCount(plan, holders, k) + fallback = c
                        /\ 0 <= fallback /\ fallback <= c

\* a returned plan where a rule of two is met by one exact holder and one
\* fallback resident
C6_Witness ==
    \E i \in SolvedCalls :
        LET plan == Plan(i)
        IN  \E clinic_id \in DOMAIN plan.self.clinic_seniority_rules :
              \E block_key \in BlockKeysOf(plan, clinic_id) :
                 \E k \in RulesInForce(plan, clinic_id) :
                    LET holders == PositionHolders(plan, clinic_id, block_key)
                    IN  /\ plan.self.clinic_seniority_rules[clinic_id][k] = 2
                        /\ ExactCount(plan, holders, k) = 1
                        /\ FallbackCount(plan, holders, k) = 1

\* C7: a clinic with required_assistants = 2 and the rules
\* {kidemli: 1, comez: 1}, all residents comez: the clinic plan succeeds
\* with the seniority rules in force, with no relaxation note, both
\* positions held by comez residents and a total fallback count of 1.
\* Stated for the calls in which the solver's wall clock never ran out.
OnlyComezScenario ==
    /\ request.plan_type = "clinic"
    /\ Len(repo.clinics) = 1
    /\ repo.clinics[1].required_assistants = 2
    /\ repo.duties = <<>>
    /\ repo.rules = (repo.clinics[1].id :> [kidemli |-> 1, comez |-> 1])
    /\ repo.staff # <<>>
    /\ \A n \in 1..Len(repo.staff) :
          /\ TitleStartsWithAsst(repo.staff[n].title)
          /\ repo.staff[n].seniority = "comez"
    /\ LeaveRequestsMap(repo.leave) = EmptyMap

NoExpiry == \A i \in 1..Len(solves) : solves[i].outcome.detail # "UNKNOWN"

TotalFallback(plan, clinic_id) ==
    LET keys == BlockKeysOf(plan, clinic_id)
        holders == PositionHolders(plan, clinic_id, CHOOSE key \in keys : TRUE)
    IN  FallbackCount(plan, holders, "kidemli") + FallbackCount(plan, holders, "comez")

C7_OnlyComezPlanSucceeds ==
    (OnlyComezScenario /\ pc = "done" /\ NoExpiry) =>
        /\ response.kind = "ok"
        /\ response.result.fallback_notes = <<>>
        /\ LastSolve.args.clinic_seniority_rules = repo.rules
        /\ \A s \in 1..Len(response.result.assignments) :
              response.result.assignments[s].person_seniority = Some("comez")
        /\ TotalFallback(Plan(Len(solves)), repo.clinics[1].id) = 1

\* the scenario ran to its response without a wall-clock expiry
C7_ScenarioAnswered == OnlyComezScenario /\ pc = "done" /\ NoExpiry

\* C8: in every returned clinic plan the occupant of a slot of clinic X is
\* a resident unless the rules of X hold an uzman count of 1 or more, and
\* nobody on the forbidden list of X occupies a slot of X.
UzmanCount(args, clinic_id) ==
    Get(Get(args.clinic_seniority_rules, clinic_id, EmptyMap), "uzman", 0)

C8_ClinicEligibility ==
    \A i \in SolvedCalls :
        LET plan == Plan(i)
        IN  \A s \in 1..Len(plan.args.slots) :
              LET slot == plan.args.slots[s]
                  clinic_id == slot.identifier[2]
              IN  slot.duty_type = "clinic" =>
                    \A p \in Occupants(plan, s) :
                       /\ IsResident(plan.args.people[p]) \/ UzmanCount(plan.args, clinic_id) >= 1
                       /\ plan.args.people[p].identifier
                             \notin Get(plan.args.clinic_forbidden_people, clinic_id, {})

\* a returned plan of a call with a forbidden list naming one of the people,
\* in which a specialist occupies a clinic slot
C8_Witness ==
    \E i \in SolvedCalls :
        LET plan == Plan(i)
        IN  \E s \in 1..Len(plan.args.slots) :
              LET clinic_id == plan.args.slots[s].identifier[2]
              IN  /\ plan.args.slots[s].duty_type = "clinic"
                  /\ \E p \in Occupants(plan, s) : ~IsResident(plan.args.people[p])
                  /\ \E q \in PIdx(plan.self) :
                        plan.args.people[q].identifier
                           \in Get(plan.args.clinic_forbidden_people, clinic_id, {})

\* C9: the clinic path makes its attempts in the order full constraints,
\* repeat history disabled, repeat history disabled and seniority rules
\* dropped; it moves on only after a solver failure and stops at the first
\* success; the accepted result carries the notes of every relaxation
\* applied: none after attempt 1, the repeat note after attempt 2, the
\* repeat note and the seniority note, in that order, after attempt 3.
CascadeArgs == <<ClinicArgs(TRUE, TRUE), ClinicArgs(FALSE, TRUE), ClinicArgs(FALSE, FALSE)>>
CascadeNotes == <<<<>>, <<RepeatNote>>, <<RepeatNote, SeniorityNote>>>>

InClinicCascade ==
    request.plan_type = "clinic" /\ pc \in {"attempt1", "attempt2", "attempt3", "done", "raised"}

C9_CascadeOrderAndNotes ==
    InClinicCascade =>
        /\ Len(solves) <= 3
        /\ \A i \in 1..Len(solves) :
              /\ solves[i].args = CascadeArgs[i]
              /\ i < Len(solves) => solves[i].outcome.kind = "RuntimeError"
        /\ (pc = "done" /\ response.kind = "ok") =>
              /\ LastSolve.outcome.kind = "ok"
              /\ response.result.fallback_notes = CascadeNotes[Len(solves)]

\* a plan accepted at the third attempt
C9_ThirdAttemptAccepted ==
    InClinicCascade /\ pc = "done" /\ response.kind = "ok" /\ Len(solves) = 3

\* C10: a failing compute_plan call reports 400 for the input-class
\* failures and 500 for the terminal solver failure, on the clinic path and
\* on the night-duty path.
InputClassFailures ==
    {"NoStaff", "MissingCapDuty", "NoWorkToPlan", "NoSlotsGenerated",
     "no_eligible_personnel", "AllSpecialistsOnLeave"}

C10_StatusMapping ==
    (pc = "done" /\ response.kind = "error") =>
        /\ Val(response.error) \in InputClassFailures => response.status = Some(StatusBadRequest)
        /\ Val(response.error) = "SolverFailed" => response.status = Some(StatusServerError)

\* the night-duty path ended in the terminal solver failure
C10_NightSolverFailure ==
    /\ request.plan_type = "nobet"
    /\ pc = "done"
    /\ response.kind = "error"
    /\ response.error = Some("SolverFailed")

\* ---------------------------------------------------------------------- C11
\* The duties as stored, read without the program's text functions: a nobet
\* duty named "cap" in any casing and spacing (an empty category counts as
\* nobet), and a mesa duty.
StoredCapDuty ==
    \E i \in 1..Len(repo.duties) :
        /\ repo.duties[i].name \in {"cap", "Cap", "CAP", " Cap "}
        /\ repo.duties[i].duty_category \in {"nobet", ""}

StoredMesaDuty ==
    \E i \in 1..Len(repo.duties) :
        repo.duties[i].duty_category \in {"mesa", "Mesa", "Mesa "}

PreconditionErrors == {"NoStaff", "MissingCapDuty", "NoWorkToPlan"}

\* C11: compute_plan answers with the no-staff error exactly when the staff
\* list is empty (either plan type), with the missing-cap error exactly when a
\* nobet plan with staff has no nobet duty named "cap" (case-insensitive,
\* trimmed), and with the no-work error exactly when a clinic plan with staff
\* has neither a clinic nor a mesa duty; each of these answers carries no
\* result and is given before any solver call and before the on-call plan.
C11_PreconditionChecks ==
    pc \notin {"idle", "called"} =>
        /\ response.error = Some("NoStaff") <=> repo.staff = <<>>
        /\ response.error = Some("MissingCapDuty") <=>
               (repo.staff # <<>> /\ request.plan_type = "nobet" /\ ~StoredCapDuty)
        /\ response.error = Some("NoWorkToPlan") <=>
               (/\ repo.staff # <<>>
                /\ request.plan_type = "clinic"
                /\ repo.clinics = <<>>
                /\ ~StoredMesaDuty)
        /\ (\E e \in PreconditionErrors : response.error = Some(e)) =>
               /\ pc = "done"
               /\ response.kind = "error"
               /\ response.result = NoResult
               /\ solves = <<>>
               /\ cap_result = NoCapResult

\* a nobet plan without a cap duty, requested while the history of the
\* earlier months has rows, and answered
C11_Witness ==
    /\ pc \notin {"idle", "called"}
    /\ request.plan_type = "nobet"
    /\ repo.staff # <<>>
    /\ ~StoredCapDuty
    /\ repo.history # {}

\* ---------------------------------------------------------------------- C12
\* The specialists of the on-call plan in the order of the rotation, and the
\* stored leave rows of a person read directly.
RotationOrder == CapSpecialists(people_from_records(repo.staff))

StoredLeaveOn(person, day) ==
    LET rows == Get(repo.leave, person.identifier[2], <<>>)
    IN  \E w \in 1..Len(rows) :
            /\ Min2(rows[w][1], rows[w][2]) <= day
            /\ day <= Max2(rows[w][1], rows[w][2])

\* position (from 0) in the rotation of the specialist assigned on a day
AssignedIndex(day) ==
    CHOOSE i \in 0..(Len(RotationOrder) - 1) :
        Some(RotationOrder[i + 1].identifier) = cap_result.assignments[day + 1].person_id

\* C12: in build_cap_plan the specialists are in case-insensitive name order,
\* the pointer starts at 0, the specialist of each day is the first one in
\* cyclic order from the pointer who is not on leave that day, and the
\* pointer after a day is (index of the assigned specialist + 1) mod the
\* number of specialists; the pointer a day starts with is the one the
\* previous day left.
C12_RotatingPointer ==
    cap_result.ok =>
        LET n == Len(RotationOrder)
            pointers == cap_result.pointers
        IN  /\ \A i \in 1..(n - 1) :
                   NameKey(RotationOrder[i].display_name)
                       <= NameKey(RotationOrder[i + 1].display_name)
            /\ Len(pointers) = request.month.days + 1
            /\ Len(cap_result.assignments) = request.month.days
            /\ pointers[1] = 0
            /\ \A day \in Days(request.month) :
                   LET pointer == pointers[day + 1]
                       index == AssignedIndex(day)
                       distance == (index - pointer) % n
                   IN  /\ ~StoredLeaveOn(RotationOrder[index + 1], day)
                       /\ \A k \in 0..(distance - 1) :
                              StoredLeaveOn(RotationOrder[((pointer + k) % n) + 1], day)
                       /\ pointers[day + 2] = (index + 1) % n

\* an on-call plan of three specialists in which, on some day, the specialist
\* at the pointer is on leave and a later one is assigned
C12_Witness ==
    /\ cap_result.ok
    /\ Len(RotationOrder) = 3
    /\ \E day \in Days(request.month) :
           AssignedIndex(day) # cap_result.pointers[day + 1]

\* ---------------------------------------------------------------------- C13
\* C13: every on-call plan that build_cap_plan returns has exactly one
\* assignment for each day of the month, and no assignment gives a specialist
\* a day that lies inside one of that specialist's leave windows.
C13_OnePerDayNoneOnLeave ==
    cap_result.ok =>
        LET assignments == cap_result.assignments
            of_day(day) == {i \in 1..Len(assignments) : assignments[i].slot_id[3] = day}
        IN  /\ \A day \in Days(request.month) : Cardinality(of_day(day)) = 1
            /\ \A i \in 1..Len(assignments) :
                   /\ assignments[i].slot_id[3] \in Days(request.month)
                   /\ assignments[i].start = assignments[i].slot_id[3] * HoursPerDay
                   /\ \A j \in 1..Len(RotationOrder) :
                          Some(RotationOrder[j].identifier) = assignments[i].person_id
                              => ~StoredLeaveOn(RotationOrder[j], assignments[i].slot_id[3])

\* an on-call plan returned although every specialist has leave in the month
C13_Witness ==
    /\ cap_result.ok
    /\ \A j \in 1..Len(RotationOrder) :
           \E day \in Days(request.month) : StoredLeaveOn(RotationOrder[j], day)

\* ---------------------------------------------------------------------- C14
\* days of the month on which every specialist has stored leave
BlockedDays ==
    {day \in Days(request.month) :
        \A j \in 1..Len(RotationOrder) : StoredLeaveOn(RotationOrder[j], day)}

\* compute_plan has called build_cap_plan
CapPlanAnswered ==
    /\ request.plan_type = "nobet"
    /\ repo.staff # <<>>
    /\ StoredCapDuty
    /\ pc \notin {"idle", "cap", "called", "raised"}

\* C14: build_cap_plan fails exactly when there is no specialist or some day
\* of the month has every specialist on leave; the failure names the earliest
\* such day, no part of an on-call plan is kept or returned, and compute_plan
\* answers with the error without any solver call for the residents' night
\* plan.
C14_CapPlanFailure ==
    CapPlanAnswered =>
        /\ cap_result.ok <=> (RotationOrder # <<>> /\ BlockedDays = {})
        /\ ~cap_result.ok =>
               /\ pc = "done"
               /\ response.kind = "error"
               /\ response.result = NoResult
               /\ cap_result.assignments = <<>>
               /\ solves = <<>>
               /\ IF RotationOrder = <<>>
                  THEN response.error = Some("NoSpecialist") /\ response.date = None
                  ELSE /\ response.error = Some("AllSpecialistsOnLeave")
                       /\ \E day \in BlockedDays :
                              /\ response.date = Some(day)
                              /\ \A other \in BlockedDays : day <= other

\* a refused plan with two days without a free specialist, after a day that
\* had one
C14_Witness ==
    /\ CapPlanAnswered
    /\ response.error = Some("AllSpecialistsOnLeave")
    /\ Cardinality(BlockedDays) >= 2
    /\ 0 \notin BlockedDays

\* ---------------------------------------------------------------------- C15
\* the stored rows of one plan type: clinic rows carry a clinic id, night
\* rows carry none
RowsOfType(rows, plan_type) ==
    SelectSeq(rows, LAMBDA row : IsNone(row.clinic_id) <=> plan_type = "nobet")

\* the plan of the last approval request of a plan type, unless the database
\* rejected its rows
LastApproved(plan_type) ==
    IF plan_type \in DOMAIN log.last /\ log.last[plan_type].outcome # "IntegrityError"
    THEN Some(log.last[plan_type].new_entries)
    ELSE None

\* C15: after approvals of computed plans for one (unit, period), executed
\* one at a time, the rows with a clinic id are exactly the rows of the most
\* recently approved clinic plan and the rows without one are exactly the rows
\* of the most recently approved night-duty plan: approving one plan type
\* keeps the other type's rows, and approving a plan type again replaces its
\* rows.
C15_HistoryFollowsApprovals ==
    (ActiveProcs = {} /\ log.one_at_a_time) =>
        \A plan_type \in {"clinic", "nobet"} :
            ~IsNone(LastApproved(plan_type)) =>
                RowsOfType(table, plan_type) = Val(LastApproved(plan_type))

\* a clinic plan and a night-duty plan were approved one after the other
C15_Witness ==
    /\ ActiveProcs = {}
    /\ log.one_at_a_time
    /\ log.ended = 2
    /\ ~IsNone(LastApproved("clinic"))
    /\ ~IsNone(LastApproved("nobet"))

\* ---------------------------------------------------------------------- C16
\* C16: replace_assignment_history replaces the rows as one unit: while its
\* transaction is open every other connection still reads the rows the
\* period had before the DELETE (never the period without its old rows and
\* without the new ones), and when an INSERT fails the period keeps all the
\* rows it had before.
C16_ReplaceIsAtomic ==
    [][/\ \A p \in Procs :
              approval'[p].pc \in {"insert", "commit"} => table' = approval'[p].before
       /\ snapshot'.writer # None => snapshot'.rows = snapshot'.before
       /\ \A p \in Procs :
              (approval[p].pc = "insert" /\ approval'[p].pc = "idle")
                  => table' = approval[p].before]_vars

\* a request read the history while a replace had deleted the rows of an
\* earlier plan and inserted its own, before the commit
C16_Witness ==
    \E p \in Procs :
        /\ approval[p].pc = "commit"
        /\ approval[p].before # <<>>
        /\ approval[p].working # <<>>
        /\ snapshot.writer = Some(p)
        /\ snapshot.rows = approval[p].before

\* ---------------------------------------------------------------------- C17
\* C17: when an approval of a clinic plan and an approval of a night-duty
\* plan for the same (unit, period) have both been saved, in any
\* interleaving, the history holds the rows of both plans, as it would after
\* running the two approvals one after the other.
C17_BothPlansKept ==
    (/\ ActiveProcs = {}
     /\ log.ended = 2
     /\ DOMAIN log.last = {"clinic", "nobet"}
     /\ \A plan_type \in DOMAIN log.last : log.last[plan_type].outcome = "saved")
        => \A plan_type \in {"clinic", "nobet"} :
               RowsOfType(table, plan_type) = log.last[plan_type].new_entries

\* both approvals ran at the same time and both were saved
C17_Witness ==
    /\ ActiveProcs = {}
    /\ log.ended = 2
    /\ ~log.one_at_a_time
    /\ DOMAIN log.last = {"clinic", "nobet"}
    /\ \A plan_type \in DOMAIN log.last : log.last[plan_type].outcome = "saved"

\* ---------------------------------------------------------------------- C18
SolverFailure(solve) == solve.outcome.kind = "RuntimeError"

\* C18: the night-duty path calls the solver at most twice.  The first call
\* carries the weekend history; a second call is made only after a solver
\* failure of the first, with the same arguments except the weekend history,
\* which is disabled, and it is made once.  A returned plan carries the
\* weekend relaxation note exactly when the first call failed and the second
\* returned a plan; when the second call fails too, the request fails and no
\* result is returned.
C18_NightAttempts ==
    request.plan_type = "nobet" =>
        /\ Len(solves) <= 2
        /\ Len(solves) >= 1 =>
               solves[1].args.weekend_history_counts = WeekendHistoryCounts(repo.history)
        /\ (Len(solves) = 1 /\ SolverFailure(solves[1])) => pc = "night_retry"
        /\ Len(solves) = 2 =>
               /\ SolverFailure(solves[1])
               /\ solves[2].args = [solves[1].args EXCEPT !.weekend_history_counts = EmptyMap]
               /\ pc = "done"
        /\ (Len(solves) = 2 /\ SolverFailure(solves[2])) =>
               response.kind = "error" /\ response.result = NoResult
        /\ response.kind = "ok" =>
               (WeekendNote \in SeqRange(response.result.fallback_notes)
                   <=> (Len(solves) = 2 /\ solves[2].outcome.kind = "ok"))

\* the first call failed, the retry returned a plan and the note is returned
C18_Witness ==
    /\ request.plan_type = "nobet"
    /\ Len(solves) = 2
    /\ SolverFailure(solves[1])
    /\ solves[2].outcome.kind = "ok"
    /\ response.kind = "ok"
    /\ response.result.fallback_notes = <<WeekendNote>>

\* ---------------------------------------------------------------------- C19
\* the stored title begins with "Uzm"
StoredTitleBeginsWithUzm(row) == row.title \in {"Uzm. Dr.", " Uzm. Dr. ", "Uzm."}

\* the stored seniority without surrounding blanks and capitals
StoredSeniority(row) ==
    IF row.seniority = "Kidemli " THEN "kidemli" ELSE row.seniority

\* C19: people_from_records gives every staff row a Person such that a title
\* beginning with "Uzm" forces seniority uzman; otherwise the stored seniority
\* is kept if it is kidemli, ara, comez or uzman and becomes ara if not; the
\* night limits are both dropped when min > max, so that min <= max whenever
\* both are present, and no limit is negative.
C19_PersonOfRow ==
    ~IsNone(converted.people) =>
        \A i \in 1..Len(repo.staff) :
            LET row == repo.staff[i]
                person == Val(converted.people)[i]
            IN  /\ Len(Val(converted.people)) = Len(repo.staff)
                /\ person.seniority =
                       IF StoredTitleBeginsWithUzm(row) THEN "uzman"
                       ELSE IF StoredSeniority(row) \in {"kidemli", "ara", "comez", "uzman"}
                       THEN StoredSeniority(row)
                       ELSE "ara"
                /\ (/\ ~IsNone(row.min_night)
                    /\ ~IsNone(row.max_night)
                    /\ Val(row.min_night) > Val(row.max_night)
                    /\ Val(row.max_night) >= 0)
                       => (IsNone(person.min_night_duties) /\ IsNone(person.max_night_duties))
                /\ (~IsNone(person.min_night_duties) /\ ~IsNone(person.max_night_duties))
                       => Val(person.min_night_duties) <= Val(person.max_night_duties)
                /\ ~IsNone(person.min_night_duties) => Val(person.min_night_duties) >= 0
                /\ ~IsNone(person.max_night_duties) => Val(person.max_night_duties) >= 0

\* a row with the title "Uzm." and limits 2 > 1 has been converted
C19_Witness ==
    /\ ~IsNone(converted.people)
    /\ \E i \in 1..Len(repo.staff) :
           /\ repo.staff[i].title = "Uzm."
           /\ repo.staff[i].seniority = "comez"
           /\ repo.staff[i].min_night = Some(2)
           /\ repo.staff[i].max_night = Some(1)

\* ---------------------------------------------------------------------- C20
\* the positions (0 when the suffix is omitted) of the emitted slots
\* "<prefix>_<id>_<day>[_<position>]"
EmittedPositions(prefix, id, day) ==
    LET slots == Val(converted.slots)
    IN  [i \in {j \in 1..Len(slots) :
                    /\ slots[j].identifier[1] = prefix
                    /\ slots[j].identifier[2] = id
                    /\ slots[j].identifier[3] = day}
            |-> IF Len(slots[i].identifier) = 3 THEN 0 ELSE slots[i].identifier[4]]

\* exactly k slots, numbered 1..k, the number omitted when k = 1
EmitsPositions(prefix, id, day, k) ==
    LET positions == EmittedPositions(prefix, id, day)
        numbers == {positions[i] : i \in DOMAIN positions}
    IN  /\ Cardinality(DOMAIN positions) = k
        /\ numbers = IF k = 0 THEN {} ELSE IF k = 1 THEN {0} ELSE 1..k

WorkingDay(day) == ~IsWeekend(request.month, day) /\ ~IsHoliday(request.month, day)

\* C20: slots_from_records emits, for a clinic plan, exactly k slots per
\* clinic (k = required_assistants) on each day that is neither weekend nor
\* holiday and none on the other days, the mesa duty slots under the same
\* day rule and no nobet duty slot; for a nobet plan no clinic slot, no mesa
\* slot, and the nobet duty slots (required_staff_count per day) on every
\* day; the position suffix runs 1..k and is omitted when k = 1.
C20_SlotsOfRecords ==
    ~IsNone(converted.slots) =>
        LET slots == Val(converted.slots)
            clinic_plan == request.plan_type = "clinic"
        IN  /\ \A i \in 1..Len(slots) :
                   \/ /\ slots[i].identifier[1] = "clinic"
                      /\ \E c \in 1..Len(repo.clinics) :
                             repo.clinics[c].id = slots[i].identifier[2]
                   \/ /\ slots[i].identifier[1] = "duty"
                      /\ \E u \in 1..Len(repo.duties) :
                             repo.duties[u].id = slots[i].identifier[2]
            /\ \A day \in 0..(request.month.days - 1) :
                /\ \A c \in 1..Len(repo.clinics) :
                       EmitsPositions("clinic", repo.clinics[c].id, day,
                           IF clinic_plan /\ WorkingDay(day)
                           THEN repo.clinics[c].required_assistants ELSE 0)
                /\ \A u \in 1..Len(repo.duties) :
                       EmitsPositions("duty", repo.duties[u].id, day,
                           IF clinic_plan
                           THEN IF DutyCategory(repo.duties[u]) = "mesa" /\ WorkingDay(day)
                                THEN repo.duties[u].required_staff_count ELSE 0
                           ELSE IF DutyCategory(repo.duties[u]) = "nobet"
                                THEN repo.duties[u].required_staff_count ELSE 0)

\* slots have been emitted for a clinic plan over a month with a weekend day,
\* a holiday and a working day, a clinic of three positions, a mesa duty of
\* two positions and a nobet duty
C20_Witness ==
    /\ ~IsNone(converted.slots)
    /\ request.plan_type = "clinic"
    /\ \E d1, d2, d3 \in 0..(request.month.days - 1) :
           /\ IsWeekend(request.month, d1)
           /\ IsHoliday(request.month, d2) /\ ~IsWeekend(request.month, d2)
           /\ WorkingDay(d3)
           /\ Cardinality(DOMAIN EmittedPositions("clinic", 1, d3)) = 3
           /\ Cardinality(DOMAIN EmittedPositions("duty", 7, d3)) = 2
    /\ \E u \in 1..Len(repo.duties) : DutyCategory(repo.duties[u]) = "nobet"

\* the same for a nobet plan: a duty of two positions, a mesa duty left out
C20_NightWitness ==
    /\ ~IsNone(converted.slots)
    /\ request.plan_type = "nobet"
    /\ repo.clinics # <<>>
    /\ \E d1 \in 0..(request.month.days - 1) :
           /\ IsWeekend(request.month, d1)
           /\ Cardinality(DOMAIN EmittedPositions("duty", 9, d1)) = 2
    /\ \E u \in 1..Len(repo.duties) : DutyCategory(repo.duties[u]) = "mesa"

\* ---------------------------------------------------------------------- C21
\* the emitted slots of one kind and day that satisfy a test on the identifier
EmittedWith(duty_type, day, Test(_)) ==
    LET slots == Val(converted.slots)
    IN  {j \in 1..Len(slots) :
            /\ slots[j].duty_type = duty_type
            /\ SlotDate(slots[j]) = day
            /\ Test(slots[j].identifier)}

\* C21: parsing an emitted slot identifier recovers what was formatted: for
\* every clinic, day and position i in 1..k exactly one emitted slot parses
\* (_parse_clinic_slot_identifier) to (clinic id, i), with i = 1 when the
\* suffix is omitted; _extract_clinic_id and _parse_duty_slot_identifier give
\* the clinic / duty id for the suffixed and the unsuffixed form.
C21_ParseRecoversFormat ==
    ~IsNone(converted.slots) =>
        \A day \in 0..(request.month.days - 1) :
            /\ \A c \in 1..Len(repo.clinics) :
                   LET clinic == repo.clinics[c]
                       k == IF request.plan_type = "clinic" /\ WorkingDay(day)
                            THEN clinic.required_assistants ELSE 0
                       ParsesTo(i) ==
                           LET Test(identifier) ==
                                   _parse_clinic_slot_identifier(identifier)
                                       = <<Some(clinic.id), Some(i)>>
                           IN  EmittedWith("clinic", day, Test)
                       ExtractsId(identifier) ==
                           _extract_clinic_id(identifier) = Some(clinic.id)
                   IN  /\ \A i \in 1..k : Cardinality(ParsesTo(i)) = 1
                       /\ Cardinality(EmittedWith("clinic", day, ExtractsId)) = k
            /\ \A u \in 1..Len(repo.duties) :
                   LET duty == repo.duties[u]
                       kept == IF request.plan_type = "clinic"
                               THEN DutyCategory(duty) = "mesa" /\ WorkingDay(day)
                               ELSE DutyCategory(duty) = "nobet"
                       k == IF kept THEN duty.required_staff_count ELSE 0
                       ParsesId(identifier) ==
                           _parse_duty_slot_identifier(identifier) = Some(duty.id)
                   IN  Cardinality(EmittedWith("duty", day, ParsesId)) = k

\* identifiers of both forms have been emitted and parsed: a clinic of one
\* position and a clinic of three, a duty of two positions
C21_Witness ==
    /\ ~IsNone(converted.slots)
    /\ \E i, j, l \in 1..Len(Val(converted.slots)) :
           LET slots == Val(converted.slots)
           IN  /\ Len(slots[i].identifier) = 3
               /\ _parse_clinic_slot_identifier(slots[i].identifier) = <<Some(2), Some(1)>>
               /\ _parse_clinic_slot_identifier(slots[j].identifier) = <<Some(1), Some(3)>>
               /\ Len(slots[l].identifier) = 4
               /\ _parse_duty_slot_identifier(slots[l].identifier) = Some(7)

\* ---------------------------------------------------------------------- C22
RotationScenario ==
    /\ repo = RotationScenarioRepo
    /\ request = [plan_type |-> "clinic", month |-> RotationScenarioMonth]

\* the week of the month (0, 1, ...) of an assignment; the month of the
\* scenario starts on a Monday, which is also the first slot date of the clinic
WeekOf(assignment) == (assignment.start \div HoursPerDay) \div 7

\* C22: for one clinic with required_assistants = 1 and weekly rotation, two
\* residents (one ara, one comez), no leave, no seniority rules and empty
\* history, the clinic plan has the same resident on every weekday of a
\* rotation block, and weeks 1 and 2 of the month have different occupants.
C22_WeeksAlternate ==
    (RotationScenario /\ pc = "done" /\ response.kind = "ok") =>
        LET plan == response.result.assignments
        IN  \A s, t \in 1..Len(plan) :
                /\ WeekOf(plan[s]) = WeekOf(plan[t])
                       => plan[s].person_id = plan[t].person_id
                /\ (WeekOf(plan[s]) = 0 /\ WeekOf(plan[t]) = 1)
                       => plan[s].person_id # plan[t].person_id

\* the first attempt of the scenario returned a plan of minimal objective
\* value in which one resident holds weeks 1 and 2
C22_OptimalPlanRepeats ==
    /\ RotationScenario /\ pc = "done" /\ response.kind = "ok"
    /\ Len(solves) = 1
    /\ LET self == Prototype(solves[1].args)
       IN  solves[1].outcome.x \in OptimalSolutions(self, BuildModel(self))
    /\ LET plan == response.result.assignments
       IN  \E s, t \in 1..Len(plan) :
               /\ WeekOf(plan[s]) = 0 /\ WeekOf(plan[t]) = 1
               /\ plan[s].person_id = plan[t].person_id

\* ---------------------------------------------------------------------- C23
\* C23: in every assignment record of a successful plan, solver assignments
\* and on-call assignments alike, requires_extended_rest is true if and only
\* if duration_hours >= 16.
C23_ExtendedRestFlag ==
    (pc = "done" /\ response.kind = "ok") =>
        \A s \in 1..Len(response.result.assignments) :
            LET assignment == response.result.assignments[s]
            IN  assignment.requires_extended_rest
                    <=> assignment.duration_hours >= ExtendedRestHours

\* a returned night plan holds an on-call record and a record of a resident's
\* night duty of 16 hours or more
C23_Witness ==
    /\ pc = "done" /\ response.kind = "ok"
    /\ request.plan_type = "nobet"
    /\ \E s, t \in 1..Len(response.result.assignments) :
           LET plan == response.result.assignments
           IN  /\ plan[s].slot_id[2] = CapDuty.id
               /\ plan[s].duration_hours >= ExtendedRestHours
               /\ plan[t].slot_id[2] = 9
               /\ plan[t].duration_hours >= ExtendedRestHours
               /\ plan[t].requires_extended_rest

\* ---------------------------------------------------------------------- C24
\* the assignments of the recomputed plan whose slot identifier starts with
\* the prefix
AssignmentsOf(assignments, prefix) ==
    SelectSeq(assignments, LAMBDA a : a.slot_id[1] = prefix)

\* the history row that belongs to one assignment
RowOfAssignment(assignment, plan_type) ==
    LET day == assignment.start \div HoursPerDay
    IN  [staff_id        |-> Val(assignment.person_id)[2],
         clinic_id       |-> IF plan_type = "clinic" THEN Some(assignment.slot_id[2])
                             ELSE None,
         assignment_date |-> day,
         day_type        |-> IF (ApprovalMonth.first_weekday + day) % 7 \in {5, 6}
                             THEN "weekend" ELSE "weekday"]

\* C24: the rows that an approval writes for the plan's own type are derived
\* one-to-one from the recomputed assignments: a clinic-plan approval writes
\* one row per clinic_* assignment, with the slot's clinic id, and none for
\* the mesa duty assignments; a night-plan approval writes one row per duty_*
\* assignment, on-call and resident alike, with clinic_id NULL; the staff id
\* is the N of staff_<N>, the date is the date of the slot start, and the
\* day_type is weekend exactly on a Saturday or Sunday.
C24_RowsOfApprovedPlan ==
    \A p \in Procs :
        approval[p].pc = "commit" =>
            LET plan_type == approval[p].plan_type
                own == AssignmentsOf(approval[p].assignments,
                                     IF plan_type = "clinic" THEN "clinic" ELSE "duty")
                written == RowsOfType(approval[p].working, plan_type)
            IN  /\ Len(written) = Len(own)
                /\ \A i \in 1..Len(own) : written[i] = RowOfAssignment(own[i], plan_type)

\* the rows of a night plan with on-call and resident assignments on a
\* weekend day have been inserted
C24_Witness ==
    \E p \in Procs :
        /\ approval[p].pc = "commit"
        /\ approval[p].plan_type = "nobet"
        /\ \E i, j \in 1..Len(approval[p].assignments) :
               LET plan == approval[p].assignments
               IN  /\ plan[i].slot_id[2] = CapDuty.id
                   /\ plan[j].slot_id[2] = 9
                   /\ IsWeekend(ApprovalMonth, plan[j].start \div HoursPerDay)
        /\ Len(approval[p].working) = Len(approval[p].assignments)

\* the rows of a clinic plan with mesa assignments have been inserted
C24_ClinicWitness ==
    \E p \in Procs :
        /\ approval[p].pc = "commit"
        /\ approval[p].plan_type = "clinic"
        /\ approval[p].working # <<>>
        /\ \E i \in 1..Len(approval[p].assignments) :
               approval[p].assignments[i].slot_id[2] = MesaDuty.id

\* ---------------------------------------------------------------------- C25
\* a request ends because compute_plan returned an error
PlanErrorStep ==
    /\ log'.ended = log.ended + 1
    /\ log'.plan_error_rows = Some(Len(table))
    /\ approval' = approval

\* C25: if the plan recomputation inside planla_approve fails, no history
\* write happens: the assignment-history table is exactly as it was before
\* the approval request.
C25_FailedPlanWritesNothing == [][PlanErrorStep => table' = table]_vars

\* a recomputation failed for a period that had history rows
C25_Witness ==
    /\ ~IsNone(log.plan_error_rows)
    /\ Val(log.plan_error_rows) > 0
    /\ table # <<>>

\* ---------------------------------------------------------------------- C26
\* C26: a successful approval for (unit U, period P) leaves every history row
\* of any other period and of any other unit unchanged; only rows of period
\* P and unit U are deleted or inserted.
C26_OtherRowsUntouched == [][elsewhere' = elsewhere]_vars

\* an approval was saved while other periods and units had rows
C26_Witness ==
    /\ elsewhere # <<>>
    /\ table # <<>>
    /\ \E plan_type \in DOMAIN log.last : log.last[plan_type].outcome = "saved"

\* ---------------------------------------------------------------------- C27
\* C27: compute_plan is total: on every path, a model-construction error (no
\* eligible staff for a slot) raised during the second or third attempt of
\* the clinic cascade included, it returns a (result, error, status) triple
\* with the result absent on failure; no exception escapes to the caller.
C27_ComputePlanIsTotal ==
    /\ pc # "raised"
    /\ response.kind # "raised"
    /\ pc = "done" =>
          \/ /\ response.kind = "ok"
             /\ response.result # NoResult
             /\ IsNone(response.error)
          \/ /\ response.kind = "error"
             /\ response.result = NoResult
             /\ ~IsNone(response.error) /\ ~IsNone(response.status)

\* the third attempt of the clinic cascade raised the model-construction
\* error after two solver failures
C27_ThirdAttemptRaises ==
    /\ request.plan_type = "clinic"
    /\ Len(solves) = 3
    /\ solves[1].outcome.kind = "RuntimeError"
    /\ solves[2].outcome.kind = "RuntimeError"
    /\ solves[3].outcome.kind = "ValueError"
    /\ solves[3].outcome.detail = "no_eligible_personnel"
    /\ pc = "raised"

\* ---------------------------------------------------------------------- C28
\* histories to compare with: last month's clinic staff, weekend counts
RepeatHistories ==
    {EmptyMap, 1 :> {StaffIdentifier(1), StaffIdentifier(2)}}

WeekendHistories ==
    {EmptyMap, (StaffIdentifier(3) :> 2) @@ (StaffIdentifier(4) :> 1)}

\* what a solve_schedule call can end in, but for the choice among the
\* solutions: the feasible assignments, or the error
FeasibleSet(args) == SolveOutcomes(args)

\* C28: repeat history and weekend history influence only the objective,
\* never the constraints: for fixed people, slots, rules and leave the set
\* of feasible assignments is the same with and without
\* clinic_repeat_history and with and without weekend_history_counts, so
\* attempt 2 of the clinic cascade and the retry of the night path have the
\* feasible set of the attempt before them.  The feasible set is a function
\* of the arguments of the call alone, so each call is examined once, in the
\* state where it ended without a plan (which every call can).
C28_HistoryOnlyInObjective ==
    (solves # <<>> /\ LastSolve.outcome.kind # "ok") =>
        LET args == LastSolve.args
            feasible == FeasibleSet(args)
        IN  /\ request.plan_type = "clinic" =>
                  \A repeat \in RepeatHistories \ {args.clinic_repeat_history} :
                      FeasibleSet([args EXCEPT !.clinic_repeat_history = repeat]) = feasible
            /\ request.plan_type = "nobet" =>
                  \A weekend \in WeekendHistories \ {args.weekend_history_counts} :
                      FeasibleSet([args EXCEPT !.weekend_history_counts = weekend]) = feasible
            /\ (Len(solves) = 2 /\ solves[1].args.clinic_seniority_rules
                                      = solves[2].args.clinic_seniority_rules)
                  => FeasibleSet(solves[1].args) = feasible

\* the second attempt of the clinic cascade ran without the repeat history
\* that the first attempt had; a plan that repeats last month's clinic for
\* somebody is feasible for it
C28_Witness ==
    /\ Len(solves) = 2
    /\ request.plan_type = "clinic"
    /\ solves[1].args.clinic_repeat_history # EmptyMap
    /\ solves[2].args.clinic_repeat_history = EmptyMap
    /\ solves[2].outcome.kind # "ok"
    /\ \E outcome \in FeasibleSet(solves[2].args) :
           /\ outcome.kind = "ok"
           /\ \E p \in 1..Len(solves[1].args.people), s \in 1..Len(solves[1].args.slots) :
                  /\ _clinic_assignment_repeat(Prototype(solves[1].args), p, s)
                  /\ Holds(outcome.x, p, s)

\* the retry of the night path ended without a plan although weekend duty
\* slots had feasible assignments
C28_NightWitness ==
    /\ Len(solves) = 2
    /\ request.plan_type = "nobet"
    /\ solves[2].outcome.kind # "ok"
    /\ weekend_slot_indices(Prototype(solves[2].args)) # {}
    /\ \E outcome \in FeasibleSet(solves[2].args) : outcome.kind = "ok"

\* ---------------------------------------------------------------------- C29
\* the slots synthesised for one duty row: "duty_<id>_<date>[_<pos>]"
SlotsOfDuty(duty) ==
    LET slots == Val(converted.slots)
    IN  {slots[j] : j \in {i \in 1..Len(slots) :
                              /\ slots[i].identifier[1] = "duty"
                              /\ slots[i].identifier[2] = duty.id}}

NobetDutyRows ==
    {repo.duties[i] : i \in {j \in 1..Len(repo.duties) :
                                DutyCategory(repo.duties[j]) = "nobet"}}

\* C29: for every nobet duty of duration h, 16 <= h <= 24, each synthesised
\* slot starts at hour (8 - h) mod 24 of its day and ends at exactly 08:00
\* of the following day; for every duty with h < 16 the slot starts at
\* 08:00 of its day.
C29_LongDutyEndsAtEight ==
    ~IsNone(converted.slots) =>
        \A duty \in NobetDutyRows :
            LET h == duty.duration_hours
            IN  \A slot \in SlotsOfDuty(duty) :
                    LET day == slot.identifier[3]
                    IN  /\ (16 <= h /\ h <= 24) =>
                              /\ slot.start = day * HoursPerDay + ((8 - h) % 24)
                              /\ SlotEnd(slot) = (day + 1) * HoursPerDay + 8
                        /\ h < 16 => slot.start = day * HoursPerDay + 8

\* a 20-hour duty and an 8-hour duty were turned into slots of a night plan
C29_Witness ==
    /\ ~IsNone(converted.slots)
    /\ request.plan_type = "nobet"
    /\ \E long \in NobetDutyRows, short \in NobetDutyRows :
           /\ long.duration_hours = 20
           /\ short.duration_hours = 8
           /\ SlotsOfDuty(long) # {}
           /\ SlotsOfDuty(short) # {}

\* ---------------------------------------------------------------------- C30
\* the days of the month a position of the rotation is assigned
AssignedDays(index) == {day \in Days(request.month) : AssignedIndex(day) = index}

NoLeaveAtAll == \A k \in DOMAIN repo.leave : repo.leave[k] = <<>>

\* C30: in every on-call plan built from two or more specialists, the same
\* specialist is assigned on two consecutive days only if every other
\* specialist is on leave on the second day; with no leave at all, day
\* number d (counting from 0) is assigned to specialist d mod n of the
\* sorted list and the assigned-day counts of any two specialists differ by
\* at most 1.
C30_NoBackToBackOnCall ==
    (cap_result.ok /\ Len(RotationOrder) >= 2) =>
        LET n == Len(RotationOrder)
            positions == 0..(n - 1)
        IN  /\ \A day \in Days(request.month) \ {0} :
                   AssignedIndex(day) = AssignedIndex(day - 1) =>
                       \A other \in positions \ {AssignedIndex(day)} :
                           StoredLeaveOn(RotationOrder[other + 1], day)
            /\ NoLeaveAtAll =>
                   /\ \A day \in Days(request.month) : AssignedIndex(day) = day % n
                   /\ \A i \in positions, j \in positions :
                          Cardinality(AssignedDays(i)) - Cardinality(AssignedDays(j)) <= 1

\* an on-call plan of three specialists in which one of them has two
\* consecutive days, the others being on leave on the second
C30_Witness ==
    /\ cap_result.ok
    /\ Len(RotationOrder) = 3
    /\ \E day \in Days(request.month) \ {0} : AssignedIndex(day) = AssignedIndex(day - 1)

\* an on-call plan of three specialists without leave, for a month longer
\* than one round of the rotation
C30_NoLeaveWitness ==
    /\ cap_result.ok
    /\ Len(RotationOrder) = 3
    /\ NoLeaveAtAll
    /\ request.month.days > 3
    /\ \E i \in 0..2, j \in 0..2 :
           Cardinality(AssignedDays(i)) = Cardinality(AssignedDays(j)) + 1

====
